---------------------------- MODULE Spec2Model ----------------------------
(***************************************************************************)
(* A model of the Aseprite-to-PNG converter of the snowfall repository     *)
(* (source/assets/build/aseprite_to_png.ts), of the crc32 utility it       *)
(* imports from raiment-core, and of three small units of the repository:  *)
(* template (raiment-shell), RNG.selectN (math/rng.ts) and the hooks       *)
(* useServerSideEvents and useThrottledCallback.                           *)
(*                                                                         *)
(* Bytes are naturals 0..255 and byte buffers (Uint8Array) are sequences.  *)
(* TLA+ sequences are 1-based, the code's offsets are 0-based: the byte at *)
(* offset o of a buffer d is d[o + 1].                                     *)
(*                                                                         *)
(* Each subsystem has one record variable; a specification that does not   *)
(* exercise a subsystem leaves its variable at Idle.                       *)
(***************************************************************************)
EXTENDS Integers, Sequences, FiniteSets, TLC

VARIABLES
    rd,     \* an AsepriteReader under a sequence of typed reads
    conv,   \* one run of the CLI / convertAsepriteToPNG
    bl,     \* one pixel of createRGBAImage's blend
    crc,    \* one run of crc32
    enc,    \* one run of encodePNG followed by a reference PNG reader
    cli,    \* the command line of aseprite_to_png.ts up to the call of the converter
    tpl,    \* one call of template
    rng,    \* one call of RNG.selectN / RNG.shuffle
    sse,    \* the effect of useServerSideEvents for one url
    st,     \* one call of inflate or deflateSync and the stream it drives
    thr     \* one useThrottledCallback and the clock of its timers

vars == <<rd, conv, bl, crc, enc, cli, tpl, rng, sse, st, thr>>

Idle == [pc |-> "idle"]

(***************************************************************************)
(* Bounds of the model.                                                    *)
(***************************************************************************)
MaxBufLen == 3      \* longest buffer handed to the reader harness
MaxCount == 2       \* largest count given to readBytes / skip in the harness
MaxReads == 3       \* reads performed by the harness on one buffer

(***************************************************************************)
(* JavaScript values.                                                      *)
(***************************************************************************)
\* data[i] for an index outside a typed array
Undefined == -1

\* the result of arithmetic on undefined (undefined / 255, NaN + x, ...), kept
\* with the fractions of the blend as 0 / 0
NaN == [n |-> 0, d |-> 0]

Min(a, b) == IF a < b THEN a ELSE b

\* e, with v evaluated first: keeps the accumulator of a loop a value while
\* the loop is unrolled
Then(v, e) == IF v = v THEN e ELSE e

Max(a, b) == IF a > b THEN a ELSE b

\* data[o] of a Uint8Array: the byte, or undefined outside the array
At(data, o) == IF o >= 0 /\ o < Len(data) THEN data[o + 1] ELSE Undefined

\* ToInt32 of an array element: undefined becomes 0 under |, << and ^
ToInt(v) == IF v = Undefined THEN 0 ELSE v

\* Uint8Array.prototype.slice(begin, end): negative indices count from the
\* end, both are clamped to the array, an empty range gives an empty array
Slice(data, begin, end) ==
    LET len == Len(data)
        rel(i) == IF i < 0 THEN Max(len + i, 0) ELSE Min(i, len)
    IN  SubSeq(data, rel(begin) + 1, rel(end))

\* new TextDecoder().decode(bytes) on the bytes the model uses: an ASCII byte
\* decodes to its code point, a byte that starts no UTF-8 sequence to U+FFFD
TextDecode(bytes) ==
    [i \in 1..Len(bytes) |-> IF bytes[i] < 128 THEN bytes[i] ELSE 65533]

(***************************************************************************)
(* AsepriteReader.  Every read is a function of (data, offset) giving the  *)
(* value returned and the offset left in the reader.  The class has no     *)
(* throw statement: "threw" records whether a read raised an error.        *)
(* A 32-bit value is kept as two 16-bit halves, value = hi * 65536 + lo.   *)
(***************************************************************************)
RdResult(v, o) == [value |-> v, offset |-> o, threw |-> FALSE]

readByte(data, o) == RdResult(At(data, o), o + 1)

readWord(data, o) ==
    RdResult(ToInt(At(data, o)) + 256 * ToInt(At(data, o + 1)), o + 2)

\* readShort without the sign
readShortUnsigned(data, o) == readWord(data, o)

readShort(data, o) ==
    LET w == readWord(data, o)
    IN  RdResult(IF w.value > 32767 THEN w.value - 65536 ELSE w.value, w.offset)

readDword(data, o) ==
    RdResult([lo |-> ToInt(At(data, o)) + 256 * ToInt(At(data, o + 1)),
              hi |-> ToInt(At(data, o + 2)) + 256 * ToInt(At(data, o + 3))],
             o + 4)

\* the number a dword stands for (below 2^31, the range of the model's integers)
Num(d) == d.hi * 65536 + d.lo

readLong(data, o) ==
    LET d == readDword(data, o)
    IN  RdResult(IF d.value.hi > 32767
                 THEN (d.value.hi - 65536) * 65536 + d.value.lo
                 ELSE Num(d.value),
                 d.offset)

\* dword / 65536 as integer part and numerator of the fraction over 65536
readFixed(data, o) ==
    LET d == readDword(data, o)
    IN  RdResult([int |-> d.value.hi, frac |-> d.value.lo], d.offset)

readBytes(data, o, count) == RdResult(Slice(data, o, o + count), o + count)

readString(data, o) ==
    LET length == readWord(data, o)
        bytes == readBytes(data, length.offset, length.value)
    IN  RdResult(TextDecode(bytes.value), bytes.offset)

skip(data, o, count) == RdResult(Undefined, o + count)

(***************************************************************************)
(* The reader harness: a buffer and a sequence of typed reads on it.       *)
(***************************************************************************)
ByteSamples == {0, 1, 128, 255}

SeqsUpTo(S, n) == UNION {[1..k -> S] : k \in 0..n}

\* buffers of four bytes and more: whole dwords of either sign, and a string
\* with its length prefix
DwordSamples ==
    {<<255, 255, 255, 255>>, <<0, 0, 0, 128>>, <<1, 0, 0, 128>>,
     <<255, 255, 255, 127>>, <<1, 2, 3, 4>>, <<2, 0, 72, 105, 0, 128>>}

RdInit ==
    /\ \E data \in SeqsUpTo(ByteSamples, MaxBufLen) \cup DwordSamples :
        rd = [pc |-> "reading", data |-> data, offset |-> 0, reads |-> 0,
              op |-> "new", before |-> 0, width |-> 0,
              value |-> Undefined, threw |-> FALSE]
    /\ conv = Idle /\ bl = Idle /\ crc = Idle /\ enc = Idle
    /\ cli = Idle /\ tpl = Idle /\ rng = Idle /\ sse = Idle /\ st = Idle /\ thr = Idle

\* one read: what it returned, where it started and how many bytes it asked for
RdStep(op, width, r) ==
    /\ rd.pc = "reading"
    /\ rd.reads < MaxReads
    /\ rd' = [rd EXCEPT !.offset = r.offset, !.reads = @ + 1, !.op = op,
                        !.before = rd.offset, !.width = width,
                        !.value = r.value, !.threw = r.threw]
    /\ UNCHANGED <<conv, bl, crc, enc, cli, tpl, rng, sse, st, thr>>

RdReadByte == RdStep("readByte", 1, readByte(rd.data, rd.offset))

RdReadWord == RdStep("readWord", 2, readWord(rd.data, rd.offset))

RdReadShort == RdStep("readShort", 2, readShort(rd.data, rd.offset))

RdReadDword == RdStep("readDword", 4, readDword(rd.data, rd.offset))

RdReadLong == RdStep("readLong", 4, readLong(rd.data, rd.offset))

RdReadFixed == RdStep("readFixed", 4, readFixed(rd.data, rd.offset))

RdReadBytes ==
    \E count \in 0..MaxCount :
        RdStep("readBytes", count, readBytes(rd.data, rd.offset, count))

RdReadString ==
    RdStep("readString", 2 + readWord(rd.data, rd.offset).value,
           readString(rd.data, rd.offset))

RdSkip ==
    \E count \in 0..MaxCount :
        RdStep("skip", count, skip(rd.data, rd.offset, count))

RdNext ==
    \/ RdReadByte
    \/ RdReadWord
    \/ RdReadShort
    \/ RdReadDword
    \/ RdReadLong
    \/ RdReadFixed
    \/ RdReadBytes
    \/ RdReadString
    \/ RdSkip

SpecReader == RdInit /\ [][RdNext]_vars


\* the typed reads of the class (skip reads nothing)
TypedReads ==
    {"readByte", "readWord", "readShort", "readDword", "readLong", "readFixed",
     "readString", "readBytes"}

\* C3: every typed read that needs a byte at or past the end of the buffer
\* fails with a truncated-data error (it returns no undefined, zero-filled or
\* shortened value).
C3_TruncatedReadFails ==
    (rd.pc = "reading" /\ rd.op \in TypedReads
        /\ rd.before + rd.width > Len(rd.data)) => rd.threw

(***************************************************************************)
(* crc32 (raiment-core).  A JavaScript number in the 32-bit range is kept  *)
(* as [hi, lo] with value = hi * 65536 + lo and lo in 0..65535: hi is in   *)
(* -32768..32767 for the int32 result of ^ and in 0..65535 for the uint32  *)
(* result of >>>.                                                          *)
(***************************************************************************)
RECURSIVE BitXor(_, _, _)
\* the xor of the low n bits of a and b
BitXor(a, b, n) ==
    IF n = 0 THEN 0
    ELSE (((a % 2) + (b % 2)) % 2) + 2 * BitXor(a \div 2, b \div 2, n - 1)

\* the xor of two bytes, tabulated once
XorByte == [a \in 0..255 |-> [b \in 0..255 |-> BitXor(a, b, 8)]]

\* the xor of two 16-bit values
Xor16(a, b) == 256 * XorByte[a \div 256][b \div 256] + XorByte[a % 256][b % 256]

\* the 16 bits of the upper half of ToInt32(x) / ToUint32(x)
HiBits(x) == x.hi % 65536

\* a ^ b: both operands taken as 32 bits, the result an int32
Xor32(a, b) ==
    LET h == Xor16(HiBits(a), HiBits(b))
    IN  [hi |-> IF h > 32767 THEN h - 65536 ELSE h, lo |-> Xor16(a.lo, b.lo)]

\* a >>> 0: the same 32 bits as a uint32
ToUint32(a) == [hi |-> HiBits(a), lo |-> a.lo]

\* a >>> 1: a uint32
Ushr1(a) ==
    [hi |-> HiBits(a) \div 2, lo |-> (a.lo \div 2) + 32768 * (HiBits(a) % 2)]

AllOnes == [hi |-> 65535, lo |-> 65535]          \* 0xffffffff

Polynomial == [hi |-> 60856, lo |-> 33568]       \* 0xedb88320

ByteNum(b) == [hi |-> 0, lo |-> ToInt(b)]

RECURSIVE crc32Bits(_, _)
\* the inner loop: j more rounds of  crc = crc & 1 ? poly ^ (crc >>> 1) : crc >>> 1
crc32Bits(c, j) ==
    IF j = 0 THEN c
    ELSE crc32Bits(IF (c.lo % 2) = 1 THEN Xor32(Polynomial, Ushr1(c)) ELSE Ushr1(c),
                   j - 1)

\* one round of the outer loop: crc ^= data[i], then the eight inner rounds
crc32Byte(c, b) == crc32Bits(Xor32(c, ByteNum(b)), 8)

\* crc32Final without the closing >>> 0: the int32 result of ^
crc32FinalSigned(c) == Xor32(c, AllOnes)

\* return (crc ^ 0xffffffff) >>> 0
crc32Final(c) == ToUint32(Xor32(c, AllOnes))

RECURSIVE crc32Loop(_, _, _)
crc32Loop(data, i, c) ==
    IF i >= Len(data) THEN c
    ELSE LET next == crc32Byte(c, At(data, i))
         IN  Then(next, crc32Loop(data, i + 1, next))

crc32(data) == crc32Final(crc32Loop(data, 0, AllOnes))

MaxCrcLen == 3      \* longest input drawn besides the reference vector

CrcBytes == {0, 1, 97, 255}

\* the ASCII bytes "123456789"
CheckVector == <<49, 50, 51, 52, 53, 54, 55, 56, 57>>

CrcInit ==
    /\ \E data \in SeqsUpTo(CrcBytes, MaxCrcLen) \cup {CheckVector} :
        crc = [pc |-> "loop", data |-> data, i |-> 0, crc |-> AllOnes,
               result |-> AllOnes]
    /\ rd = Idle /\ conv = Idle /\ bl = Idle /\ enc = Idle
    /\ cli = Idle /\ tpl = Idle /\ rng = Idle /\ sse = Idle /\ st = Idle /\ thr = Idle

\* one iteration of  for (let i = 0; i < data.length; i++)
CrcLoop ==
    /\ crc.pc = "loop"
    /\ crc.i < Len(crc.data)
    /\ crc' = [crc EXCEPT !.crc = crc32Byte(crc.crc, At(crc.data, crc.i)),
                          !.i = @ + 1]
    /\ UNCHANGED <<rd, conv, bl, enc, cli, tpl, rng, sse, st, thr>>

CrcReturn ==
    /\ crc.pc = "loop"
    /\ crc.i >= Len(crc.data)
    /\ crc' = [crc EXCEPT !.pc = "done", !.result = crc32Final(crc.crc)]
    /\ UNCHANGED <<rd, conv, bl, enc, cli, tpl, rng, sse, st, thr>>

CrcNext ==
    \/ CrcLoop
    \/ CrcReturn

SpecCrc == CrcInit /\ [][CrcNext]_vars

\* C8: crc32 is the reflected IEEE CRC-32 as an unsigned 32-bit value: the
\* result is never negative, the empty input gives 0, "123456789" gives
\* 0xCBF43926 (and the one-byte inputs 0x00 and "a" give their reference
\* values 0xD202EF8D and 0xE8B7BE43), and the loop agrees with the function.
C8_Crc32Standard ==
    crc.pc = "done" =>
        /\ crc.result.hi \in 0..65535
        /\ crc.result.lo \in 0..65535
        /\ crc.data = <<>> => crc.result = [hi |-> 0, lo |-> 0]
        /\ crc.data = CheckVector => crc.result = [hi |-> 52212, lo |-> 14630]
        /\ crc.data = <<0>> => crc.result = [hi |-> 53762, lo |-> 61325]
        /\ crc.data = <<97>> => crc.result = [hi |-> 59575, lo |-> 48707]
        /\ crc.result = crc32(crc.data)

C8_Witness == crc.pc = "done" /\ crc.data = CheckVector


(***************************************************************************)
(* The blend of createRGBAImage for one source pixel over one destination  *)
(* pixel.  The code works in doubles; the model works in exact fractions   *)
(* [n, d] in lowest terms, with NaN for arithmetic on undefined.           *)
(* Math.round(x) is floor(x + 1/2).  Intermediate products above 2^31 are  *)
(* avoided by taking quotient and remainder of a product bit by bit.       *)
(* A double and the exact fraction round to the same integer unless the    *)
(* exact value lies halfway between two integers; the inputs below hold no *)
(* such value.                                                             *)
(***************************************************************************)
RECURSIVE GCD(_, _)
GCD(a, b) == IF b = 0 THEN a ELSE GCD(b, a % b)

Frac(n, d) == LET g == GCD(n, d) IN [n |-> n \div g, d |-> d \div g]

RECURSIVE MulDivRem(_, _, _)
\* quotient and remainder of a * b by c
MulDivRem(a, b, c) ==
    IF b = 0 THEN [q |-> 0, r |-> 0]
    ELSE LET h == MulDivRem(a, b \div 2, c)
             t == 2 * h.r + (b % 2) * a
         IN  [q |-> 2 * h.q + (t \div c), r |-> t % c]

\* Math.round(n / d) for n >= 0, d > 0
Round(n, d) == (2 * n + d) \div (2 * d)

\* layerOpacity * celOpacity, each an opacity byte / 255
totalOpacityLayerOnly(layerOpacity, celOpacity) ==
    IF layerOpacity = Undefined THEN NaN ELSE Frac(layerOpacity, 255)

totalOpacity(layerOpacity, celOpacity) ==
    IF layerOpacity = Undefined \/ celOpacity = Undefined THEN NaN
    ELSE Frac(layerOpacity * celOpacity, 65025)

\* srcA with a missing alpha byte taken as 255
srcAlphaUndefinedOpaque(a, opacity) ==
    IF opacity = NaN THEN NaN
    ELSE Frac((IF a = Undefined THEN 255 ELSE a) * opacity.n, 255 * opacity.d)

\* srcA = (cel.pixels[srcIdx + 3] / 255) * totalOpacity
srcAlpha(a, opacity) ==
    IF a = Undefined \/ opacity = NaN THEN NaN
    ELSE Frac(a * opacity.n, 255 * opacity.d)

\* outA taken to be the source's alpha alone
outAlphaSourceOnly(srcA, da) == 255 * srcA.n

\* 255 * q * outA, for srcA = p / q and dstA = da / 255:
\* outA = srcA + dstA * (1 - srcA)
outAlpha(srcA, da) == 255 * srcA.n + da * (srcA.d - srcA.n)

\* blendChannel without the division by outA
blendChannelPremultiplied(sc, dc, srcA, da) ==
    IF sc = Undefined THEN 0
    ELSE LET s == MulDivRem(255 * sc, srcA.n, 255 * srcA.d)
             d == MulDivRem(dc * da, srcA.d - srcA.n, 255 * srcA.d)
         IN  s.q + d.q + Round(s.r + d.r, 255 * srcA.d)

\* Math.round((src * srcA + dst * dstA * (1 - srcA)) / outA) as stored in a
\* Uint8Array (NaN is stored as 0)
blendChannel(sc, dc, srcA, da) ==
    IF sc = Undefined THEN 0
    ELSE LET outA == outAlpha(srcA, da)
             s == MulDivRem(255 * sc, srcA.n, outA)
             d == MulDivRem(dc * da, srcA.d - srcA.n, outA)
         IN  s.q + d.q + Round(s.r + d.r, outA)

\* the blend with the destination laid over the source
blendPixelUnder(src, dst, opacity) ==
    LET srcA == srcAlpha(dst[4], [n |-> 1, d |-> 1])
    IN  IF src[4] = Undefined \/ opacity = NaN THEN dst
        ELSE IF outAlpha(srcA, src[4]) > 0
             THEN << blendChannel(dst[1], src[1], srcA, src[4]),
                     blendChannel(dst[2], src[2], srcA, src[4]),
                     blendChannel(dst[3], src[3], srcA, src[4]),
                     Round(outAlpha(srcA, src[4]), srcA.d) >>
             ELSE dst

\* lines 444-467: the destination pixel after one source pixel
blendPixel(src, dst, opacity) ==
    LET srcA == srcAlpha(src[4], opacity)
    IN  IF srcA = NaN THEN dst                      \* NaN > 0 is false
        ELSE IF outAlpha(srcA, dst[4]) > 0
             THEN << blendChannel(src[1], dst[1], srcA, dst[4]),
                     blendChannel(src[2], dst[2], srcA, dst[4]),
                     blendChannel(src[3], dst[3], srcA, dst[4]),
                     Round(outAlpha(srcA, dst[4]), srcA.d) >>
             ELSE dst

ChannelSamples == {0, 1, 100, 255}

AlphaSamples == {0, 1, 128, 255}

\* (layer opacity, cel opacity)
OpacitySamples == {<<255, 255>>, <<255, 128>>, <<128, 255>>, <<255, 0>>, <<1, 255>>}

\* like the three above, for translucent pixels under opacities of 1/5, 1/3
\* and 2/3
ChannelThirds == {0, 37, 255}

DstChannelThirds == {0, 200, 255}

SrcAlphaThirds == {51, 170, 255}

DstAlphaThirds == {0, 85, 255}

OpacityThirds == {<<85, 170>>, <<51, 255>>, <<170, 170>>}

BlInputs ==
    \/ \E s \in 0..255, d \in 0..255 :
        bl = [pc |-> "blend", src |-> <<s, 255 - s, d, 255>>,
              dst |-> <<d, s, 255 - d, 255>>,
              layerOpacity |-> 255, celOpacity |-> 128, out |-> <<>>]
    \/ \E s \in ChannelSamples, d \in ChannelSamples,
          sa \in AlphaSamples, da \in AlphaSamples, o \in OpacitySamples :
        bl = [pc |-> "blend", src |-> <<s, 255 - s, 7, sa>>,
              dst |-> <<d, 9, 255 - d, da>>,
              layerOpacity |-> o[1], celOpacity |-> o[2], out |-> <<>>]
    \/ \E s \in ChannelThirds, d \in DstChannelThirds,
          sa \in SrcAlphaThirds, da \in DstAlphaThirds, o \in OpacityThirds :
        bl = [pc |-> "blend", src |-> <<s, 255 - s, 7, sa>>,
              dst |-> <<d, 9, 255 - d, da>>,
              layerOpacity |-> o[1], celOpacity |-> o[2], out |-> <<>>]

BlInit == BlInputs /\ rd = Idle /\ conv = Idle /\ crc = Idle /\ enc = Idle
            /\ cli = Idle /\ tpl = Idle /\ rng = Idle /\ sse = Idle /\ st = Idle /\ thr = Idle

BlBlend ==
    /\ bl.pc = "blend"
    /\ bl' = [bl EXCEPT !.pc = "done",
                        !.out = blendPixel(bl.src, bl.dst,
                                    totalOpacity(bl.layerOpacity, bl.celOpacity))]
    /\ UNCHANGED <<rd, conv, crc, enc, cli, tpl, rng, sse, st, thr>>

BlNext == BlBlend

SpecBlend == BlInit /\ [][BlNext]_vars

Abs(x) == IF x < 0 THEN -x ELSE x

\* C7: a cel of opacity 128 on a layer of opacity 255 over a destination of
\* alpha 255 leaves alpha exactly 255 and, for an opaque source pixel, makes
\* every colour channel the integer nearest to (128 * src + 127 * dst) / 255,
\* which is within one unit of the plain average (src + dst) / 2.
C7_HalfOpacityBlend ==
    (bl.pc = "done" /\ bl.celOpacity = 128 /\ bl.layerOpacity = 255
        /\ bl.dst[4] = 255) =>
        /\ bl.out[4] = 255
        /\ bl.src[4] = 255 =>
            \A c \in 1..3 :
                /\ 2 * Abs(255 * bl.out[c] - (128 * bl.src[c] + 127 * bl.dst[c])) <= 255
                /\ Abs(2 * bl.out[c] - (bl.src[c] + bl.dst[c])) <= 2

C7_Witness ==
    /\ bl.pc = "done" /\ bl.celOpacity = 128 /\ bl.layerOpacity = 255
    /\ bl.dst = <<0, 200, 255, 255>> /\ bl.src = <<200, 55, 0, 255>>
    /\ bl.out = <<100, 127, 127, 255>>

\* Naturals up to 2^40 as hi * 4096 + lo, for the products of five bytes
Limb == 4096

Big(x) == [hi |-> x \div Limb, lo |-> x % Limb]

\* b * m, for b below 2^24 and m below 2^16
BigTimes(b, m) ==
    [hi |-> b.hi * m + (b.lo * m) \div Limb, lo |-> (b.lo * m) % Limb]

BigPlus(a, b) ==
    [hi |-> a.hi + b.hi + (a.lo + b.lo) \div Limb, lo |-> (a.lo + b.lo) % Limb]

BigLeq(a, b) == a.hi < b.hi \/ (a.hi = b.hi /\ a.lo <= b.lo)

\* out is an integer nearest to num / den
BigNearest(out, num, den) ==
    LET twice == BigPlus(BigTimes(den, out), BigTimes(den, out))
        num2 == BigPlus(num, num)
    IN  /\ BigLeq(num2, BigPlus(twice, den))
        /\ BigLeq(twice, BigPlus(num2, den))

\* 255^3 * srcA = sourceAlpha * layerOpacity * celOpacity
SrcWeight == bl.src[4] * bl.layerOpacity * bl.celOpacity

\* 255^3 * (1 - srcA)
DstWeight == 255 * 255 * 255 - SrcWeight

\* 255^4 * outA
OutWeight == BigPlus(BigTimes(Big(SrcWeight), 255),
                     BigTimes(Big(DstWeight), bl.dst[4]))

\* 255^4 * (src * srcA + dst * dstA * (1 - srcA)) for channel c
ChannelWeight(c) ==
    BigPlus(BigTimes(Big(SrcWeight), 255 * bl.src[c]),
            BigTimes(Big(DstWeight), bl.dst[c] * bl.dst[4]))

\* C20: with srcA = (sourceAlpha/255) * (layerOpacity/255) * (celOpacity/255),
\* dstA = destAlpha/255 and outA = srcA + dstA * (1 - srcA): when outA > 0
\* each colour channel of the result is the integer nearest to
\* (src * srcA + dst * dstA * (1 - srcA)) / outA and the alpha is the integer
\* nearest to outA * 255; when outA is 0 the destination pixel is unchanged.
C20_OverOperator ==
    bl.pc = "done" =>
        IF OutWeight = Big(0) THEN bl.out = bl.dst
        ELSE /\ \A c \in 1..3 :
                    /\ bl.out[c] \in 0..255
                    /\ BigNearest(bl.out[c], ChannelWeight(c), OutWeight)
             /\ bl.out[4] \in 0..255
             /\ BigNearest(bl.out[4], OutWeight, Big(255 * 255 * 255))

\* a translucent pixel on a layer of opacity 1/3 and a cel of opacity 2/3
\* over a translucent destination
C20_Witness ==
    /\ bl.pc = "done" /\ bl.layerOpacity = 85 /\ bl.celOpacity = 170
    /\ bl.src = <<37, 218, 7, 170>> /\ bl.dst = <<200, 9, 55, 85>>
    /\ bl.out = <<144, 81, 39, 110>>

\* outA is 0: nothing is written
C20_WitnessTransparent ==
    /\ bl.pc = "done" /\ bl.src[4] = 0 /\ bl.dst = <<255, 9, 0, 0>>
    /\ bl.out = bl.dst


(***************************************************************************)
(* The compression primitives.  CompressionStream("deflate") writes a zlib *)
(* stream and DecompressionStream("deflate-raw") reads a raw DEFLATE       *)
(* stream; both belong to the platform.  The model's compressor writes the *)
(* stored-block form of DEFLATE (one final block: 0x01, LEN, NLEN, bytes)  *)
(* inside the zlib wrapper (0x78 0x01 ... Adler-32), and the model's       *)
(* inflater accepts exactly that form and fails on anything else.          *)
(***************************************************************************)
RECURSIVE Adler(_, _, _, _)
\* the Adler-32 sums [a, b] of data[i..]
Adler(data, i, a, b) ==
    IF i > Len(data) THEN [a |-> a, b |-> b]
    ELSE LET a1 == (a + data[i]) % 65521
             b1 == (b + a1) % 65521
         IN  Then(<<a1, b1>>, Adler(data, i + 1, a1, b1))

Adler32Bytes(data) ==
    LET s == Adler(data, 1, 1, 0)
    IN  <<s.b \div 256, s.b % 256, s.a \div 256, s.a % 256>>

\* raw DEFLATE, one stored block
DeflateRaw(data) ==
    <<1, Len(data) % 256, Len(data) \div 256,
      255 - (Len(data) % 256), 255 - (Len(data) \div 256)>> \o data

\* what arrives on the readable side of CompressionStream("deflate")
Deflate(data) == <<120, 1>> \o DeflateRaw(data) \o Adler32Bytes(data)

\* DecompressionStream("deflate-raw"): the bytes, or an error
InflateRaw(z) ==
    IF /\ Len(z) >= 5
       /\ z[1] = 1
       /\ z[2] + z[4] = 255
       /\ z[3] + z[5] = 255
       /\ Len(z) = 5 + z[2] + 256 * z[3]
    THEN [ok |-> TRUE, data |-> SubSeq(z, 6, Len(z))]
    ELSE [ok |-> FALSE, data |-> <<>>]

(***************************************************************************)
(* encodePNG, writeUint32, writeChunk, deflateSync.                        *)
(***************************************************************************)
\* a number below 2^31 as the two halves of a 32-bit value
Pair(n) == [hi |-> n \div 65536, lo |-> n % 65536]

\* writeUint32: the four bytes pushed, most significant first
writeUint32(value) ==
    <<HiBits(value) \div 256, HiBits(value) % 256, value.lo \div 256, value.lo % 256>>

\* new TextEncoder().encode(type) for the three chunk types
TypeBytes(type) ==
    CASE type = "IHDR" -> <<73, 72, 68, 82>>
      [] type = "IDAT" -> <<73, 68, 65, 84>>
      [] type = "IEND" -> <<73, 69, 78, 68>>

\* writeChunk with the CRC taken over the data alone
writeChunkCrcOfData(type, data) ==
    writeUint32(Pair(Len(data))) \o TypeBytes(type) \o data
        \o writeUint32(crc32(data))

\* writeChunk: the bytes appended to png
writeChunk(type, data) ==
    writeUint32(Pair(Len(data))) \o TypeBytes(type) \o data
        \o writeUint32(crc32(TypeBytes(type) \o data))

\* deflateSync: the chunks read from the stream, concatenated
deflateSync(data) == Deflate(data)

Signature == <<137, 80, 78, 71, 13, 10, 26, 10>>

ihdrData(width, height) ==
    writeUint32(Pair(width)) \o writeUint32(Pair(height)) \o <<8, 6, 0, 0, 0>>

\* a value pushed to a number[] and then stored in a Uint8Array
Stored(v) == IF v = Undefined THEN 0 ELSE v

RECURSIVE Concat(_, _, _)
\* f[i] \o f[i + 1] \o ... \o f[n]
Concat(f, i, n) == IF i > n THEN <<>> ELSE f[i] \o Concat(f, i + 1, n)

\* one row with the pixels read at (x * height + y) * 4
scanlineTransposed(width, height, data, y) ==
    <<0>> \o Concat([x \in 0..(width - 1) |->
                LET idx == (x * height + y) * 4
                IN  <<Stored(At(data, idx)), Stored(At(data, idx + 1)),
                      Stored(At(data, idx + 2)), Stored(At(data, idx + 3))>>],
           0, width - 1)

\* one row of imageData: filter type 0, then the row's pixels
scanline(width, height, data, y) ==
    <<0>> \o Concat([x \in 0..(width - 1) |->
                LET idx == (y * width + x) * 4
                IN  <<Stored(At(data, idx)), Stored(At(data, idx + 1)),
                      Stored(At(data, idx + 2)), Stored(At(data, idx + 3))>>],
           0, width - 1)

imageData(width, height, data) ==
    Concat([y \in 0..(height - 1) |-> scanline(width, height, data, y)],
           0, height - 1)

encodePNG(width, height, data) ==
    Signature
        \o writeChunk("IHDR", ihdrData(width, height))
        \o writeChunk("IDAT", deflateSync(imageData(width, height, data)))
        \o writeChunk("IEND", <<>>)


(***************************************************************************)
(* One run of encodePNG, statement by statement, on a buffer of            *)
(* width * height pixels, followed by a PNG reader.                        *)
(***************************************************************************)
MaxDim == 3         \* largest width and height of an encoded buffer
MaxArea == 4        \* largest width * height of an encoded buffer

PixelSamples ==
    {<<0, 0, 0, 0>>, <<255, 255, 255, 255>>, <<1, 2, 3, 4>>, <<120, 1, 0, 128>>}

PngInit ==
    /\ \E width \in 0..MaxDim, height \in 0..MaxDim :
        /\ width * height <= MaxArea
        /\ \E pixels \in [1..(width * height) -> PixelSamples] :
            enc = [pc |-> "signature", width |-> width, height |-> height,
                   data |-> Concat(pixels, 1, width * height),
                   png |-> <<>>, decoded |-> [ok |-> FALSE]]
    /\ rd = Idle /\ conv = Idle /\ bl = Idle /\ crc = Idle
    /\ cli = Idle /\ tpl = Idle /\ rng = Idle /\ sse = Idle /\ st = Idle /\ thr = Idle

PngSignature ==
    /\ enc.pc = "signature"
    /\ enc' = [enc EXCEPT !.pc = "IHDR", !.png = Signature]
    /\ UNCHANGED <<rd, conv, bl, crc, cli, tpl, rng, sse, st, thr>>

PngIHDR ==
    /\ enc.pc = "IHDR"
    /\ enc' = [enc EXCEPT !.pc = "IDAT",
                          !.png = @ \o writeChunk("IHDR", ihdrData(enc.width, enc.height))]
    /\ UNCHANGED <<rd, conv, bl, crc, cli, tpl, rng, sse, st, thr>>

PngIDAT ==
    /\ enc.pc = "IDAT"
    /\ enc' = [enc EXCEPT !.pc = "IEND",
                          !.png = @ \o writeChunk("IDAT",
                              deflateSync(imageData(enc.width, enc.height, enc.data)))]
    /\ UNCHANGED <<rd, conv, bl, crc, cli, tpl, rng, sse, st, thr>>

PngIEND ==
    /\ enc.pc = "IEND"
    /\ enc' = [enc EXCEPT !.pc = "encoded", !.png = @ \o writeChunk("IEND", <<>>)]
    /\ UNCHANGED <<rd, conv, bl, crc, cli, tpl, rng, sse, st, thr>>

\* A PNG reader, written from the PNG format and not from the encoder.
RefBE16(b, o) == 256 * b[o + 1] + b[o + 2]

RECURSIVE RefChunks(_, _)
\* the chunks of png from offset o on; ok when they end exactly at the end
RefChunks(png, o) ==
    IF o = Len(png) THEN [ok |-> TRUE, chunks |-> <<>>]
    ELSE IF o + 12 > Len(png) \/ RefBE16(png, o) # 0
              \/ o + 12 + RefBE16(png, o + 2) > Len(png)
         THEN [ok |-> FALSE, chunks |-> <<>>]
         ELSE LET n == RefBE16(png, o + 2)
                  rest == RefChunks(png, o + 12 + n)
              IN  [ok |-> rest.ok,
                   chunks |-> << [type |-> SubSeq(png, o + 5, o + 8),
                                  data |-> SubSeq(png, o + 9, o + 8 + n),
                                  crc |-> SubSeq(png, o + 9 + n, o + 12 + n)] >>
                              \o rest.chunks]

RefCrcBytes(bytes) ==
    LET c == crc32(bytes)
    IN  <<c.hi \div 256, c.hi % 256, c.lo \div 256, c.lo % 256>>

RefZlibInflate(z) ==
    IF Len(z) >= 6 /\ z[1] = 120 /\ ((256 * z[1] + z[2]) % 31) = 0
    THEN LET raw == InflateRaw(SubSeq(z, 3, Len(z) - 4))
         IN  [ok |-> raw.ok /\ SubSeq(z, Len(z) - 3, Len(z)) = Adler32Bytes(raw.data),
              data |-> raw.data]
    ELSE [ok |-> FALSE, data |-> <<>>]

RefUnfilter(stream, width, height) ==
    IF /\ Len(stream) = height * (1 + 4 * width)
       /\ \A y \in 0..(height - 1) : stream[y * (1 + 4 * width) + 1] = 0
    THEN [ok |-> TRUE,
          data |-> Concat([y \in 0..(height - 1) |->
                              SubSeq(stream, y * (1 + 4 * width) + 2,
                                     (y + 1) * (1 + 4 * width))],
                          0, height - 1)]
    ELSE [ok |-> FALSE, data |-> <<>>]

RefDecode(png) ==
    LET c == RefChunks(png, 8)
        ch == c.chunks
    IN  IF /\ Len(png) >= 8 /\ SubSeq(png, 1, 8) = <<137, 80, 78, 71, 13, 10, 26, 10>>
           /\ c.ok /\ Len(ch) = 3
           /\ ch[1].type = <<73, 72, 68, 82>> /\ Len(ch[1].data) = 13
           /\ ch[2].type = <<73, 68, 65, 84>>
           /\ SubSeq(ch[1].data, 9, 13) = <<8, 6, 0, 0, 0>>
           /\ \A i \in 1..3 : ch[i].crc = RefCrcBytes(ch[i].type \o ch[i].data)
        THEN LET width == RefBE16(ch[1].data, 2)
                 height == RefBE16(ch[1].data, 6)
                 z == RefZlibInflate(ch[2].data)
                 u == RefUnfilter(z.data, width, height)
             IN  [ok |-> z.ok /\ u.ok, width |-> width, height |-> height,
                  data |-> u.data]
        ELSE [ok |-> FALSE, width |-> 0, height |-> 0, data |-> <<>>]

\* the reader is given the encoder's output
PngRead ==
    /\ enc.pc = "encoded"
    /\ enc' = [enc EXCEPT !.pc = "decoded", !.decoded = RefDecode(enc.png)]
    /\ UNCHANGED <<rd, conv, bl, crc, cli, tpl, rng, sse, st, thr>>

PngNext ==
    \/ PngSignature
    \/ PngIHDR
    \/ PngIDAT
    \/ PngIEND
    \/ PngRead

SpecPng == PngInit /\ [][PngNext]_vars

\* C9: decoding the output of encodePNG (inflate the IDAT data, drop each
\* row's filter byte 0) gives back the width, the height and the RGBA buffer.
C9_PngRoundTrip ==
    enc.pc = "decoded" =>
        /\ enc.decoded.ok
        /\ enc.decoded.width = enc.width
        /\ enc.decoded.height = enc.height
        /\ enc.decoded.data = enc.data
        /\ enc.png = encodePNG(enc.width, enc.height, enc.data)

C9_Witness ==
    /\ enc.pc = "decoded" /\ enc.width = 2 /\ enc.height = 2
    /\ enc.decoded.data = <<1, 2, 3, 4>> \o <<0, 0, 0, 0>> \o <<120, 1, 0, 128>>
                            \o <<255, 255, 255, 255>>

\* C10: the output is the signature, an IHDR chunk of 13 bytes (width,
\* height big-endian, 8, 6, 0, 0, 0), one IDAT chunk and an empty IEND chunk
\* and nothing else; each chunk is length (big-endian), type, data and the
\* big-endian CRC-32 of type followed by data.
C10_PngLayout ==
    enc.pc = "encoded" =>
        LET c == RefChunks(enc.png, 8)
            ch == c.chunks
        IN  /\ SubSeq(enc.png, 1, 8) = <<137, 80, 78, 71, 13, 10, 26, 10>>
            /\ c.ok
            /\ Len(ch) = 3
            /\ ch[1].type = <<73, 72, 68, 82>>
            /\ ch[1].data = <<0, 0, enc.width \div 256, enc.width % 256,
                              0, 0, enc.height \div 256, enc.height % 256,
                              8, 6, 0, 0, 0>>
            /\ ch[2].type = <<73, 68, 65, 84>>
            /\ ch[3].type = <<73, 69, 78, 68>>
            /\ ch[3].data = <<>>
            /\ \A i \in 1..3 : ch[i].crc = RefCrcBytes(ch[i].type \o ch[i].data)

C10_Witness ==
    /\ enc.pc = "encoded" /\ enc.width = 2 /\ enc.height = 1
    /\ Len(enc.png) = 8 + 25 + 12 + 2 + 5 + 9 + 4 + 12


(***************************************************************************)
(* The document parser: parseHeader, parseFrame, parseLayerChunk,          *)
(* parseCelChunk and inflate.  A parser takes the buffer and the reader's  *)
(* offset and gives what it returns, the offset it leaves and whether it   *)
(* threw.                                                                  *)
(***************************************************************************)
HeaderMagic == 42464        \* 0xa5e0
FrameMagic == 61946         \* 0xf1fa
LAYER == 8196               \* 0x2004
CEL == 8197                 \* 0x2005
PALETTE == 8217             \* 0x2019
RGBA == 32                  \* the colour depth createRGBAImage draws

NoHeader ==
    [frames |-> 0, width |-> 0, height |-> 0, colorDepth |-> 0]

\* parseHeader with the magic number test left out
parseHeaderNoMagicTest(data, o) ==
    LET fileSize == readDword(data, o)
        magicNumber == readWord(data, fileSize.offset)
        frames == readWord(data, magicNumber.offset)
        width == readWord(data, frames.offset)
        height == readWord(data, width.offset)
        colorDepth == readWord(data, height.offset)
    IN  [threw |-> FALSE, message |-> "",
         header |-> [frames |-> frames.value, width |-> width.value,
                     height |-> height.value, colorDepth |-> colorDepth.value],
         offset |-> o + 128]

parseHeader(data, o) ==
    LET fileSize == readDword(data, o)
        magicNumber == readWord(data, fileSize.offset)
        frames == readWord(data, magicNumber.offset)
        width == readWord(data, frames.offset)
        height == readWord(data, width.offset)
        colorDepth == readWord(data, height.offset)
        flags == readDword(data, colorDepth.offset)
        speed == readWord(data, flags.offset)
        skip1 == skip(data, speed.offset, 8)
        transparentIndex == readByte(data, skip1.offset)
        skip2 == skip(data, transparentIndex.offset, 3)
        numColors == readWord(data, skip2.offset)
        pixelWidth == readByte(data, numColors.offset)
        pixelHeight == readByte(data, pixelWidth.offset)
        gridX == readShort(data, pixelHeight.offset)
        gridY == readShort(data, gridX.offset)
        gridWidth == readWord(data, gridY.offset)
        gridHeight == readWord(data, gridWidth.offset)
        skip3 == skip(data, gridHeight.offset, 84)
    IN  IF magicNumber.value # HeaderMagic
        THEN [threw |-> TRUE, message |-> "Invalid Aseprite file: wrong magic number",
              header |-> NoHeader, offset |-> magicNumber.offset]
        ELSE [threw |-> FALSE, message |-> "",
              header |-> [frames |-> frames.value, width |-> width.value,
                          height |-> height.value, colorDepth |-> colorDepth.value],
              offset |-> skip3.offset]

RECURSIVE readChunksWholeSize(_, _, _)
\* the chunk loop with size taken as the size of the payload
readChunksWholeSize(data, o, n) ==
    IF n <= 0 THEN [chunks |-> <<>>, offset |-> o]
    ELSE LET size == readDword(data, o)
             type == readWord(data, size.offset)
             bytes == readBytes(data, type.offset, Num(size.value))
             rest == readChunksWholeSize(data, bytes.offset, n - 1)
         IN  [chunks |-> << [size |-> Num(size.value), type |-> type.value,
                             data |-> bytes.value] >> \o rest.chunks,
              offset |-> rest.offset]

RECURSIVE readChunks(_, _, _)
\* the chunk loop of parseFrame: n more chunks from offset o
readChunks(data, o, n) ==
    IF n <= 0 THEN [chunks |-> <<>>, offset |-> o]
    ELSE LET size == readDword(data, o)
             type == readWord(data, size.offset)
             dataSize == Num(size.value) - 6
             bytes == readBytes(data, type.offset, dataSize)
             rest == readChunks(data, bytes.offset, n - 1)
         IN  [chunks |-> << [size |-> Num(size.value), type |-> type.value,
                             data |-> bytes.value] >> \o rest.chunks,
              offset |-> rest.offset]

\* parseFrame with the magic number test left out
parseFrameNoMagicTest(data, o) ==
    LET newChunks == readDword(data, o + 12)
        oldChunks == readWord(data, o + 6)
        chunkCount == IF Num(newChunks.value) = 0 THEN oldChunks.value
                      ELSE Num(newChunks.value)
        loop == readChunks(data, newChunks.offset, chunkCount)
    IN  [threw |-> FALSE, message |-> "", chunks |-> loop.chunks,
         offset |-> loop.offset]

parseFrame(data, o) ==
    LET bytesInFrame == readDword(data, o)
        magicNumber == readWord(data, bytesInFrame.offset)
        oldChunks == readWord(data, magicNumber.offset)
        frameDuration == readWord(data, oldChunks.offset)
        skip1 == skip(data, frameDuration.offset, 2)
        newChunks == readDword(data, skip1.offset)
        chunkCount == IF Num(newChunks.value) = 0 THEN oldChunks.value
                      ELSE Num(newChunks.value)
        loop == readChunks(data, newChunks.offset, chunkCount)
    IN  IF magicNumber.value # FrameMagic
        THEN [threw |-> TRUE, message |-> "Invalid frame: wrong magic number",
              chunks |-> <<>>, offset |-> magicNumber.offset]
        ELSE [threw |-> FALSE, message |-> "", chunks |-> loop.chunks,
              offset |-> loop.offset]

\* parseLayerChunk with a layer visible when any flag is set
parseLayerChunkAnyFlag(data) ==
    LET flags == readWord(data, 0)
        opacity == readByte(data, 12)
        name == readString(data, 16)
    IN  [flags |-> flags.value, opacity |-> opacity.value, name |-> name.value,
         visible |-> flags.value # 0]

parseLayerChunk(data) ==
    LET flags == readWord(data, 0)
        type == readWord(data, flags.offset)
        childLevel == readWord(data, type.offset)
        width == readWord(data, childLevel.offset)
        height == readWord(data, width.offset)
        blendMode == readWord(data, height.offset)
        opacity == readByte(data, blendMode.offset)
        skip1 == skip(data, opacity.offset, 3)
        name == readString(data, skip1.offset)
    IN  [flags |-> flags.value, opacity |-> opacity.value, name |-> name.value,
         visible |-> (flags.value % 2) # 0]

\* inflate: the zlib wrapper is cut off, the rest goes through
\* DecompressionStream("deflate-raw"); ok = FALSE when the stream errors
\* deflateData with the header cut off and the checksum kept
deflateDataKeepChecksum(data) ==
    IF Len(data) > 2 /\ At(data, 0) = 120
    THEN Slice(data, 2, Len(data))
    ELSE data

deflateData(data) ==
    IF Len(data) > 2 /\ At(data, 0) = 120
    THEN Slice(data, 2, Len(data) - 4)
    ELSE data

inflate(data) == InflateRaw(deflateData(data))

RECURSIVE Zeros(_)
\* new Uint8Array(n)
Zeros(n) == IF n <= 0 THEN <<>> ELSE <<0>> \o Zeros(n - 1)

\* the catch block that leaves pixels as it was initialised
substitutePixelsNone(celWidth, celHeight) == <<>>

\* the catch block of the compressed branch:
\* pixels = new Uint8Array(celWidth * celHeight * 4)
substitutePixels(celWidth, celHeight) == Zeros(celWidth * celHeight * 4)

\* parseCelChunk: the cel, and what went to console.warn / console.error
parseCelChunk(data, width, height) ==
    LET layerIndex == readWord(data, 0)
        x == readShort(data, layerIndex.offset)
        y == readShort(data, x.offset)
        opacity == readByte(data, y.offset)
        celType == readWord(data, opacity.offset)
        skip1 == skip(data, celType.offset, 7)
        celWidth == readWord(data, skip1.offset)
        celHeight == readWord(data, celWidth.offset)
        expectedSize == celWidth.value * celHeight.value * 4
        remainingData == Len(data) - celHeight.offset
        cel(w, h, pixels) ==
            [layerIndex |-> layerIndex.value, x |-> x.value, y |-> y.value,
             opacity |-> opacity.value, celType |-> celType.value,
             width |-> w, height |-> h, pixels |-> pixels]
    IN  CASE celType.value = 0 ->
                [cel |-> cel(celWidth.value, celHeight.value,
                             readBytes(data, celHeight.offset,
                                       Min(expectedSize, remainingData)).value),
                 warnings |-> IF remainingData < expectedSize
                              THEN <<"Not enough data for raw cel">> ELSE <<>>,
                 errors |-> <<>>]
          [] celType.value = 2 ->
                IF remainingData <= 0
                THEN [cel |-> cel(celWidth.value, celHeight.value, Zeros(expectedSize)),
                      warnings |-> <<"No compressed data available">>,
                      errors |-> <<>>]
                ELSE LET inflated ==
                            inflate(readBytes(data, celHeight.offset, remainingData).value)
                     IN  IF inflated.ok
                         THEN [cel |-> cel(celWidth.value, celHeight.value, inflated.data),
                               warnings |-> <<>>, errors |-> <<>>]
                         ELSE [cel |-> cel(celWidth.value, celHeight.value,
                                           substitutePixels(celWidth.value,
                                                            celHeight.value)),
                               warnings |-> <<>>,
                               errors |-> <<"ERROR during decompression">>]
          [] celType.value = 1 ->
                [cel |-> cel(width, height, <<>>),
                 warnings |-> <<"Linked cels (type 1) not fully supported yet">>,
                 errors |-> <<>>]
          [] OTHER ->
                [cel |-> cel(width, height, <<>>),
                 warnings |-> <<"Unknown cel type">>,
                 errors |-> <<>>]


(***************************************************************************)
(* createRGBAImage: the canvas starts transparent and the cels are drawn   *)
(* in list order, each source pixel blended into the canvas in turn.       *)
(***************************************************************************)
\* the source pixel with indices past the end wrapped to the start
srcPixelWrapped(pixels, srcIdx) ==
    IF Len(pixels) = 0 THEN <<Undefined, Undefined, Undefined, Undefined>>
    ELSE <<At(pixels, srcIdx % Len(pixels)), At(pixels, (srcIdx + 1) % Len(pixels)),
           At(pixels, (srcIdx + 2) % Len(pixels)), At(pixels, (srcIdx + 3) % Len(pixels))>>

\* the source pixel at srcIdx: bytes past the end of cel.pixels are undefined
srcPixel(pixels, srcIdx) ==
    <<At(pixels, srcIdx), At(pixels, srcIdx + 1), At(pixels, srcIdx + 2),
      At(pixels, srcIdx + 3)>>

\* drawPixel without the test of sx and sy: only writes past the end of the
\* typed array are dropped
drawPixelNoBoundsTest(image, width, height, cel, opacity, px, py) ==
    LET sx == cel.x + px
        sy == cel.y + py
        srcIdx == (py * cel.width + px) * 4
        dstIdx == (sy * width + sx) * 4
        out == blendPixel(srcPixel(cel.pixels, srcIdx),
                          SubSeq(image, dstIdx + 1, dstIdx + 4), opacity)
    IN  IF dstIdx < 0 \/ dstIdx + 4 > Len(image) THEN image
        ELSE [image EXCEPT ![dstIdx + 1] = out[1], ![dstIdx + 2] = out[2],
                           ![dstIdx + 3] = out[3], ![dstIdx + 4] = out[4]]

\* the canvas after source pixel (px, py) of the cel
drawPixel(image, width, height, cel, opacity, px, py) ==
    LET sx == cel.x + px
        sy == cel.y + py
        srcIdx == (py * cel.width + px) * 4
        dstIdx == (sy * width + sx) * 4
        out == blendPixel(srcPixel(cel.pixels, srcIdx),
                          SubSeq(image, dstIdx + 1, dstIdx + 4), opacity)
    IN  IF sx < 0 \/ sx >= width \/ sy < 0 \/ sy >= height THEN image
        ELSE [image EXCEPT ![dstIdx + 1] = out[1], ![dstIdx + 2] = out[2],
                           ![dstIdx + 3] = out[3], ![dstIdx + 4] = out[4]]

RECURSIVE drawPixels(_, _, _, _, _, _)
\* the two pixel loops, from source pixel number k (row-major) on
drawPixels(image, width, height, cel, opacity, k) ==
    IF k >= cel.width * cel.height THEN image
    ELSE LET next == drawPixel(image, width, height, cel, opacity,
                               k % cel.width, k \div cel.width)
         IN  Then(next, drawPixels(next, width, height, cel, opacity, k + 1))

\* one iteration of  for (const cel of cels)
drawCel(image, width, height, layers, cel, colorDepth) ==
    IF cel.layerIndex >= Len(layers) THEN image             \* !layer
    ELSE LET layer == layers[cel.layerIndex + 1]
         IN  IF ~layer.visible THEN image
             ELSE IF colorDepth = RGBA
                  THEN drawPixels(image, width, height, cel,
                                  totalOpacity(layer.opacity, cel.opacity), 0)
                  ELSE image

RECURSIVE drawCels(_, _, _, _, _, _, _)
drawCels(image, width, height, layers, cels, colorDepth, n) ==
    IF n > Len(cels) THEN image
    ELSE LET next == drawCel(image, width, height, layers, cels[n], colorDepth)
         IN  Then(next, drawCels(next, width, height, layers, cels, colorDepth, n + 1))

createRGBAImage(width, height, layers, cels, colorDepth) ==
    drawCels(Zeros(width * height * 4), width, height, layers, cels, colorDepth, 1)

(***************************************************************************)
(* Input documents.  A document is described by its header fields and its  *)
(* frames' chunks; FileBytes lays the description out as the bytes of an   *)
(* .aseprite file.                                                         *)
(***************************************************************************)
LE16(n) == <<n % 256, (n \div 256) % 256>>

\* a signed 16-bit value in two's complement
LE16s(n) == LE16((n + 65536) % 65536)

LE32(n) == LE16(n % 65536) \o LE16(n \div 65536)

ChunkBytes(type, payload) == LE32(6 + Len(payload)) \o LE16(type) \o payload

LayerChunk(flags, opacity) ==
    [type |-> LAYER,
     payload |-> LE16(flags) \o LE16(0) \o LE16(0) \o LE16(0) \o LE16(0) \o LE16(0)
                 \o <<opacity>> \o Zeros(3) \o LE16(1) \o <<76>>]

\* body: what follows the 16 bytes every cel chunk starts with
CelChunk(layerIndex, x, y, opacity, celType, body) ==
    [type |-> CEL,
     payload |-> LE16(layerIndex) \o LE16s(x) \o LE16s(y) \o <<opacity>>
                 \o LE16(celType) \o Zeros(7) \o body]

RawBody(width, height, pixels) == LE16(width) \o LE16(height) \o pixels

CompressedBody(width, height, zdata) == LE16(width) \o LE16(height) \o zdata

LinkedBody(framePosition) == LE16(framePosition)

FrameBytes(frame) ==
    LET n == Len(frame.chunks)
        body == Concat([k \in 1..n |->
                           ChunkBytes(frame.chunks[k].type, frame.chunks[k].payload)],
                       1, n)
    IN  LE32(16 + Len(body)) \o LE16(frame.magic)
            \o LE16(IF frame.newCount THEN 65535 ELSE n) \o LE16(100) \o Zeros(2)
            \o LE32(IF frame.newCount THEN n ELSE 0) \o body

FileBytes(doc) ==
    LET n == Len(doc.frames)
        body == Concat([k \in 1..n |-> FrameBytes(doc.frames[k])], 1, n)
        all ==
               LE32(128 + Len(body)) \o LE16(doc.magic) \o LE16(n) \o LE16(doc.width)
                   \o LE16(doc.height) \o LE16(doc.colorDepth) \o LE32(1) \o LE16(100)
                 \o Zeros(8) \o <<0>> \o Zeros(3) \o LE16(0) \o <<1, 1>>
                 \o LE16s(0) \o LE16s(0) \o LE16(16) \o LE16(16) \o Zeros(84) \o body
    IN  SubSeq(all, 1, Min(Len(all), doc.length))


MaxCanvas == 2      \* largest canvas and cel width and height of a document
MaxShift == 1       \* largest distance of a cel's offset from the canvas origin
WholeFile == 100000 \* a length no document reaches: the file is not cut short

\* pixels the documents are painted with
Palette ==
    << <<10, 20, 30, 0>>, <<255, 0, 128, 255>>, <<1, 2, 3, 128>>, <<0, 0, 0, 0>>,
       <<200, 100, 50, 255>>, <<255, 255, 255, 1>> >>

OpaquePalette == << <<255, 0, 128, 255>>, <<200, 100, 50, 255>>, <<0, 0, 0, 255>> >>

\* the bytes of n pixels: colours of pal from start on, advancing by step
Pattern(pal, start, step, n) ==
    Concat([k \in 1..n |-> pal[((start + (k - 1) * step) % Len(pal)) + 1]], 1, n)

Sizes == (1..MaxCanvas) \X (1..MaxCanvas)

Shifts == (-MaxShift)..MaxShift

Frame(chunks) == [magic |-> FrameMagic, newCount |-> FALSE, chunks |-> chunks]

Doc(width, height, frames) ==
    [magic |-> HeaderMagic, width |-> width, height |-> height, colorDepth |-> RGBA,
     frames |-> frames, length |-> WholeFile]

Input(doc, frameIndex) == [doc |-> doc, frameIndex |-> frameIndex]

\* one opaque layer, one raw cel that covers the canvas
IdentityInputs ==
    {Input(Doc(sz[1], sz[2],
               << Frame(<< LayerChunk(1, 255),
                           CelChunk(0, 0, 0, 255, 0,
                                    RawBody(sz[1], sz[2],
                                            Pattern(Palette, start, step, sz[1] * sz[2])))
                        >>) >>), 0) :
        sz \in Sizes, start \in 0..(Len(Palette) - 1), step \in 0..1}

\* a raw cel whose chunk holds only the first keep bytes of its pixels, drawn
\* on an empty canvas or over an opaque background cel
TruncatedInputs ==
    {Input(Doc(sz[1], sz[2],
               << Frame(<< LayerChunk(1, 255) >>
                        \o (IF bg THEN << CelChunk(0, 0, 0, 255, 0,
                                               RawBody(sz[1], sz[2],
                                                   Pattern(OpaquePalette, 1, 1,
                                                           sz[1] * sz[2]))) >>
                            ELSE << >>)
                        \o << CelChunk(0, 0, 0, 255, 0,
                                       RawBody(sz[1], sz[2],
                                           SubSeq(Pattern(Palette, start, 1, sz[1] * sz[2]),
                                                  1, Min(keep, sz[1] * sz[2] * 4)))) >>)
                  >>), 0) :
        sz \in Sizes, start \in 1..2, bg \in BOOLEAN,
        keep \in 0..(MaxCanvas * MaxCanvas * 4)}

\* linked cels (type 1) and cels of an unknown type (3), alone on the canvas
\* or over an opaque background cel
LinkedInputs ==
    {Input(Doc(sz[1], sz[2],
               << Frame(<< LayerChunk(1, 255) >>
                        \o (IF bg THEN << CelChunk(0, 0, 0, 255, 0,
                                               RawBody(sz[1], sz[2],
                                                   Pattern(OpaquePalette, 1, 1,
                                                           sz[1] * sz[2]))) >>
                            ELSE << >>)
                        \o << CelChunk(0, x, 0, opacity, celType, LinkedBody(0)) >>
                        \o (IF two THEN << CelChunk(0, 0, x, 255, 1, LinkedBody(0)) >>
                            ELSE << >>)) >>), 0) :
        sz \in Sizes, x \in Shifts, opacity \in {255, 128}, celType \in {1, 3},
        two \in BOOLEAN, bg \in BOOLEAN}

\* two opaque cels: the first covers the canvas, the second lies at (x, y)
OverlapInputs ==
    {Input(Doc(MaxCanvas, MaxCanvas,
               << Frame(<< LayerChunk(1, 255), LayerChunk(1, 255),
                           CelChunk(ix[1], 0, 0, 255, 0,
                                    RawBody(MaxCanvas, MaxCanvas,
                                            Pattern(OpaquePalette, 0, 1,
                                                    MaxCanvas * MaxCanvas))),
                           CelChunk(ix[2], x, y, 255, 0,
                                    RawBody(sz[1], sz[2],
                                            Pattern(OpaquePalette, start, 1,
                                                    sz[1] * sz[2]))) >>) >>), 0) :
        ix \in {<<0, 1>>, <<1, 0>>, <<0, 0>>}, x \in Shifts, y \in Shifts,
        sz \in Sizes, start \in 1..2}

\* a header whose magic number is wrong, or a file too short to hold one
BadMagicInputs ==
    {Input([Doc(1, 1, << Frame(<< LayerChunk(1, 255),
                                   CelChunk(0, 0, 0, 255, 0,
                                            RawBody(1, 1, Palette[2])) >>) >>)
              EXCEPT !.magic = magic, !.length = length], 0) :
        magic \in {0, HeaderMagic + 1, FrameMagic, HeaderMagic},
        length \in {0, 5, 6, WholeFile}}

\* other shapes: hidden and translucent layers, a cel that names no layer, a
\* compressed cel (sound and corrupt), an unknown chunk, two frames, a frame
\* index past the last frame, a wrong frame magic, an unsupported depth
OtherInputs ==
    LET cel(layerIndex, opacity) ==
            CelChunk(layerIndex, 0, 0, opacity, 0, RawBody(1, 1, Palette[2]))
        zcel(zdata) == CelChunk(0, 0, 0, 255, 2, CompressedBody(1, 1, zdata))
        unknown == [type |-> PALETTE, payload |-> <<1, 2, 3>>]
        one(chunks) == Doc(1, 1, << Frame(chunks) >>)
        two == Doc(1, 1, << Frame(<< LayerChunk(1, 255), cel(0, 255) >>),
                            [Frame(<< LayerChunk(1, 128), unknown,
                                      CelChunk(0, 0, 0, 255, 0,
                                               RawBody(1, 1, Palette[5])) >>)
                                EXCEPT !.newCount = TRUE] >>)
    IN  {Input(one(<< LayerChunk(flags, opacity), cel(layerIndex, 128) >>), 0) :
            flags \in 0..1, opacity \in {255, 128, 0}, layerIndex \in 0..1}
        \cup {Input(one(<< LayerChunk(1, 255), zcel(zdata) >>), 0) :
            zdata \in {Deflate(Palette[3]), Deflate(Palette[3]) \o <<0>>,
                       DeflateRaw(Palette[2]), <<120, 1, 7>>, << >>}}
        \cup {Input(two, frameIndex) : frameIndex \in 0..2}
        \cup {Input([two EXCEPT !.frames[2].magic = 0], frameIndex) : frameIndex \in 0..1}
        \cup {Input([two EXCEPT !.frames[1].magic = magic], frameIndex) :
                 magic \in {FrameMagic + 1, HeaderMagic}, frameIndex \in 0..1}
        \cup {Input([two EXCEPT !.colorDepth = depth], frameIndex) :
                 depth \in {0, 8, 16, 31, 33}, frameIndex \in 0..1}
        \cup {Input([two EXCEPT !.colorDepth = 16, !.frames[1].magic = 0], 0)}
        \cup {Input([two EXCEPT !.frames = Append(@, [Frame(<< LayerChunk(1, 255) >>)
                                                          EXCEPT !.magic = 0])],
                     frameIndex) : frameIndex \in 0..3}
        \cup {Input(one(<< LayerChunk(1, 255), LayerChunk(0, 128), unknown,
                           cel(0, 255), cel(1, 128) >>), frameIndex) :
                 frameIndex \in 0..1}

\* a compressed cel as large as the canvas whose data does not inflate,
\* alone, over an opaque background cel, or followed by a raw cel
CorruptInputs ==
    {Input(Doc(sz[1], sz[2],
               << Frame(<< LayerChunk(1, 255) >>
                        \o (IF bg THEN << CelChunk(0, 0, 0, 255, 0,
                                               RawBody(sz[1], sz[2],
                                                   Pattern(OpaquePalette, 1, 1,
                                                           sz[1] * sz[2]))) >>
                            ELSE << >>)
                        \o << CelChunk(0, 0, 0, 255, 2,
                                       CompressedBody(sz[1], sz[2], zdata)) >>
                        \o (IF after THEN << CelChunk(0, 0, 0, 255, 0,
                                                  RawBody(1, 1, Palette[2])) >>
                            ELSE << >>)) >>), 0) :
        sz \in Sizes, bg \in BOOLEAN, after \in BOOLEAN,
        zdata \in {<<7, 7, 7>>, <<120, 1, 1, 4, 0, 250, 255, 1, 2, 3, 4, 0, 0, 0, 0>>,
                   <<120, 1, 7>>}}

\* any selection of the defects that are not fatal, in one frame: a raw cel
\* cut short, a compressed cel that does not inflate, a linked cel, a cel of
\* an unknown type and a chunk of an unknown type
DegradedInputs ==
    LET pick(on, chunk) == IF on THEN << chunk >> ELSE << >>
    IN  {Input(Doc(1, 1,
               << Frame(<< LayerChunk(1, 255) >>
                        \o pick(truncated, CelChunk(0, 0, 0, 255, 0,
                                                    RawBody(1, 1, <<9, 8, 7>>)))
                        \o pick(corrupt, CelChunk(0, 0, 0, 255, 2,
                                                  CompressedBody(1, 1, <<7, 7, 7>>)))
                        \o pick(linked, CelChunk(0, 0, 0, 255, 1, LinkedBody(0)))
                        \o pick(unknownCel, CelChunk(0, 0, 0, 255, 3, << >>))
                        \o pick(unknownChunk, [type |-> PALETTE + 1,
                                               payload |-> <<1, 2, 3>>])) >>), 0) :
            truncated \in BOOLEAN, corrupt \in BOOLEAN, linked \in BOOLEAN,
            unknownCel \in BOOLEAN, unknownChunk \in BOOLEAN}

\* one raw cel of any size at any offset, partly or wholly off the canvas
OffsetInputs ==
    {Input(Doc(sz[1], sz[2],
               << Frame(<< LayerChunk(1, 255),
                           CelChunk(0, x, y, 255, 0,
                                    RawBody(csz[1], csz[2],
                                            Pattern(Palette, 1, 1, csz[1] * csz[2])))
                        >>) >>), 0) :
        sz \in Sizes, csz \in Sizes, x \in Shifts, y \in Shifts}

\* two layer chunks before, around or after a cel chunk that names layer 0,
\* 1 or 2, and a document whose layer chunk lies in frame 0 only
LayerOrderInputs ==
    LET cel(layerIndex) ==
            CelChunk(layerIndex, 0, 0, 255, 0, RawBody(1, 1, Palette[2]))
        order(k, c, l1, l2) ==
            CASE k = 1 -> << l1, l2, c >>
              [] k = 2 -> << c, l1, l2 >>
              [] OTHER -> << l1, c, l2 >>
    IN  {Input(Doc(1, 1, << Frame(order(k, cel(layerIndex), LayerChunk(f1, 255),
                                        LayerChunk(f2, 128))) >>), 0) :
            k \in 1..3, layerIndex \in 0..2, f1 \in 0..3, f2 \in 0..3}
        \cup {Input(Doc(1, 1, << Frame(<< LayerChunk(1, 255), cel(0) >>),
                                 Frame(<< cel(0) >> \o own) >>), frameIndex) :
                 frameIndex \in 0..1,
                 own \in {<< >>, << LayerChunk(0, 255) >>, << LayerChunk(3, 128) >>}}

\* frames of one to three chunks counted by the 16-bit or by the 32-bit
\* field, and files that end inside the first or the second chunk
FrameCountInputs ==
    LET layer == LayerChunk(1, 255)
        cel == CelChunk(0, 0, 0, 255, 0, RawBody(1, 1, Palette[2]))
        unknown == [type |-> PALETTE, payload |-> <<1, 2, 3>>]
        doc(chunks, newCount, length) ==
            [Doc(1, 1, << [Frame(chunks) EXCEPT !.newCount = newCount],
                          Frame(<< layer >>) >>) EXCEPT !.length = length]
    IN  {Input(doc(chunks, newCount, WholeFile), frameIndex) :
            chunks \in {<< layer >>, << layer, cel >>, << layer, unknown, cel >>},
            newCount \in BOOLEAN, frameIndex \in 0..1}
        \cup {Input(doc(chunks, FALSE, 128 + 16 + cut), frameIndex) :
                 chunks \in {<< layer >>, << layer, cel >>, << layer, unknown, cel >>},
                 cut \in {2, 5, 8, 26, 30}, frameIndex \in 0..1}

\* a frame index that is not a number (parseInt of a --frame without a
\* digit), as the run holds it: it lies below every index the loop counts
\* and every negative index the inputs hold, and the run does nothing with
\* the index but the test  i === frameIndex
NaNIndex == 0 - 1000

\* a === b for a loop index a and the frame index b: NaN equals nothing
StrictEquals(a, b) == b # NaNIndex /\ a = b

\* documents of one to three sound frames, each with a visible layer and an
\* opaque cel, asked for a frame they do not have: an index past the last
\* frame, a negative index, an index that is not a number; and the same with
\* a wrong magic number in the last frame
NoFrameInputs ==
    LET frame(k) == Frame(<< LayerChunk(1, 255),
                             CelChunk(0, 0, 0, 255, 0, RawBody(1, 1, Palette[k + 1])) >>)
        doc(sz, n) == Doc(sz[1], sz[2], [k \in 1..n |-> frame(k)])
    IN  {Input(doc(sz, n), frameIndex) :
            sz \in Sizes, n \in 1..3,
            frameIndex \in {NaNIndex, 0 - 2, 0 - 1, 3, 4}}
        \cup {Input(doc(sz, 2), 2) : sz \in Sizes}
        \cup {Input([doc(<<1, 1>>, n) EXCEPT !.frames[n].magic = 0], frameIndex) :
                 n \in 1..3, frameIndex \in {NaNIndex, 0 - 1, 3}}

\* three 1x1 cels on a canvas of one pixel, over an opaque layer and a layer
\* of opacity 1/3: pixels of alpha 0, 1, 128 and 255 drawn with cel opacity 0,
\* 2/3 and 1 in every order of two, then a third cel
TranslucentInputs ==
    LET cel(c) == CelChunk(c[1], 0, 0, c[3], 0, RawBody(1, 1, Palette[c[2]]))
        choices == (0..1) \X {1, 2, 3, 6} \X {0, 170, 255}
        thirds == {<<0, 3, 255>>, <<0, 1, 255>>, <<1, 2, 0>>}
    IN  {Input(Doc(1, 1, << Frame(<< LayerChunk(1, 255), LayerChunk(1, 85),
                                     cel(c1), cel(c2), cel(c3) >>) >>), 0) :
            c1 \in {c \in choices : c[1] = 0}, c2 \in choices, c3 \in thirds}

Inputs ==
    IdentityInputs \cup TruncatedInputs \cup LinkedInputs \cup OverlapInputs
        \cup BadMagicInputs \cup OtherInputs \cup CorruptInputs \cup DegradedInputs
        \cup OffsetInputs \cup LayerOrderInputs \cup FrameCountInputs
        \cup NoFrameInputs \cup TranslucentInputs


(***************************************************************************)
(* One run of the command line: convertAsepriteToPNG inside the try/catch  *)
(* of the CLI.  pc is the statement about to run.                          *)
(***************************************************************************)
ConvInit ==
    /\ \E in \in Inputs :
        conv = [pc |-> "readFile", doc |-> in.doc, frameIndex |-> in.frameIndex,
                fileData |-> <<>>, offset |-> 0, header |-> NoHeader, i |-> 0,
                chunks |-> <<>>, chunkNo |-> 0, layers |-> <<>>, cels |-> <<>>,
                image |-> <<>>, celNo |-> 0, pngData |-> <<>>,
                output |-> [written |-> FALSE, data |-> <<>>],
                warnings |-> <<>>, errors |-> <<>>, thrown |-> "", exitCode |-> -1]
    /\ rd = Idle /\ bl = Idle /\ crc = Idle /\ enc = Idle
    /\ cli = Idle /\ tpl = Idle /\ rng = Idle /\ sse = Idle /\ st = Idle /\ thr = Idle

Throw(message) == [conv EXCEPT !.pc = "catch", !.thrown = message]

\* const fileData = await Deno.readFile(inputPath)
ConvReadFile ==
    /\ conv.pc = "readFile"
    /\ \/ conv' = [conv EXCEPT !.pc = "parseHeader", !.fileData = FileBytes(conv.doc)]
       \/ conv' = Throw("readFile failed")
    /\ UNCHANGED <<rd, bl, crc, enc, cli, tpl, rng, sse, st, thr>>

\* const header = parseHeader(reader)
ConvParseHeader ==
    /\ conv.pc = "parseHeader"
    /\ LET r == parseHeader(conv.fileData, conv.offset)
       IN  conv' = IF r.threw THEN Throw(r.message)
                   ELSE [conv EXCEPT !.pc = "checkDepth", !.header = r.header,
                                     !.offset = r.offset]
    /\ UNCHANGED <<rd, bl, crc, enc, cli, tpl, rng, sse, st, thr>>

\* if (header.colorDepth !== 32) throw
ConvCheckDepth ==
    /\ conv.pc = "checkDepth"
    /\ conv' = IF conv.header.colorDepth # 32 THEN Throw("Unsupported color depth")
               ELSE [conv EXCEPT !.pc = "frames", !.i = 0]
    /\ UNCHANGED <<rd, bl, crc, enc, cli, tpl, rng, sse, st, thr>>

\* one iteration of the frame loop up to the test  i === frameIndex
ConvParseFrame ==
    /\ conv.pc = "frames"
    /\ conv.i < conv.header.frames
    /\ LET f == parseFrame(conv.fileData, conv.offset)
       IN  conv' = IF f.threw THEN Throw(f.message)
                   ELSE IF StrictEquals(conv.i, conv.frameIndex)
                        THEN [conv EXCEPT !.pc = "chunks", !.offset = f.offset,
                                          !.chunks = f.chunks, !.chunkNo = 1]
                        ELSE [conv EXCEPT !.offset = f.offset, !.i = @ + 1]
    /\ UNCHANGED <<rd, bl, crc, enc, cli, tpl, rng, sse, st, thr>>

\* a frame loop that takes a run that matched no frame to be an error
ConvFramesDoneThrows ==
    /\ conv.pc = "frames"
    /\ conv.i >= conv.header.frames
    /\ conv' = Throw("Frame not found")
    /\ UNCHANGED <<rd, bl, crc, enc, cli, tpl, rng, sse, st, thr>>

\* the frame loop ends without reaching the requested frame
ConvFramesDone ==
    /\ conv.pc = "frames"
    /\ conv.i >= conv.header.frames
    /\ conv' = [conv EXCEPT !.pc = "createImage"]
    /\ UNCHANGED <<rd, bl, crc, enc, cli, tpl, rng, sse, st, thr>>

\* the chunk loop with a chunk of a type it does not know made an error
ConvChunkUnknownFatal ==
    /\ conv.pc = "chunks"
    /\ conv.chunkNo <= Len(conv.chunks)
    /\ LET chunk == conv.chunks[conv.chunkNo]
           parsed == parseCelChunk(chunk.data, conv.header.width, conv.header.height)
       IN  conv' = CASE chunk.type = LAYER ->
                            [conv EXCEPT !.chunkNo = @ + 1,
                                         !.layers = Append(@, parseLayerChunk(chunk.data))]
                     [] chunk.type = CEL ->
                            [conv EXCEPT !.chunkNo = @ + 1,
                                         !.cels = Append(@, parsed.cel),
                                         !.warnings = @ \o parsed.warnings,
                                         !.errors = @ \o parsed.errors]
                     [] OTHER -> Throw("Unknown chunk type")
    /\ UNCHANGED <<rd, bl, crc, enc, cli, tpl, rng, sse, st, thr>>

\* one iteration of  for (const chunk of frame.chunks)
ConvChunk ==
    /\ conv.pc = "chunks"
    /\ conv.chunkNo <= Len(conv.chunks)
    /\ LET chunk == conv.chunks[conv.chunkNo]
           parsed == parseCelChunk(chunk.data, conv.header.width, conv.header.height)
       IN  conv' = CASE chunk.type = LAYER ->
                            [conv EXCEPT !.chunkNo = @ + 1,
                                         !.layers = Append(@, parseLayerChunk(chunk.data))]
                     [] chunk.type = CEL ->
                            [conv EXCEPT !.chunkNo = @ + 1,
                                         !.cels = Append(@, parsed.cel),
                                         !.warnings = @ \o parsed.warnings,
                                         !.errors = @ \o parsed.errors]
                     [] OTHER -> [conv EXCEPT !.chunkNo = @ + 1]
    /\ UNCHANGED <<rd, bl, crc, enc, cli, tpl, rng, sse, st, thr>>

\* the break taken inside the chunk loop, after the first chunk
ConvBreakEarly ==
    /\ conv.pc = "chunks"
    /\ conv.chunkNo > Min(1, Len(conv.chunks))
    /\ conv' = [conv EXCEPT !.pc = "createImage"]
    /\ UNCHANGED <<rd, bl, crc, enc, cli, tpl, rng, sse, st, thr>>

\* the frame loop without the break: it goes on to the next frame
ConvNoBreak ==
    /\ conv.pc = "chunks"
    /\ conv.chunkNo > Len(conv.chunks)
    /\ conv' = [conv EXCEPT !.pc = "frames", !.i = @ + 1]
    /\ UNCHANGED <<rd, bl, crc, enc, cli, tpl, rng, sse, st, thr>>

\* break: only the requested frame is processed
ConvBreak ==
    /\ conv.pc = "chunks"
    /\ conv.chunkNo > Len(conv.chunks)
    /\ conv' = [conv EXCEPT !.pc = "createImage"]
    /\ UNCHANGED <<rd, bl, crc, enc, cli, tpl, rng, sse, st, thr>>

\* createRGBAImage: the canvas is allocated and cleared
ConvCreateImage ==
    /\ conv.pc = "createImage"
    /\ conv' = [conv EXCEPT !.pc = "drawCels", !.celNo = 1,
                            !.image = Zeros(conv.header.width * conv.header.height * 4)]
    /\ UNCHANGED <<rd, bl, crc, enc, cli, tpl, rng, sse, st, thr>>

\* createRGBAImage: one iteration of  for (const cel of cels)
ConvDrawCel ==
    /\ conv.pc = "drawCels"
    /\ conv.celNo <= Len(conv.cels)
    /\ conv' = [conv EXCEPT !.celNo = @ + 1,
                            !.image = drawCel(conv.image, conv.header.width,
                                              conv.header.height, conv.layers,
                                              conv.cels[conv.celNo],
                                              conv.header.colorDepth)]
    /\ UNCHANGED <<rd, bl, crc, enc, cli, tpl, rng, sse, st, thr>>

\* createRGBAImage returns rgbaData
ConvReturnImage ==
    /\ conv.pc = "drawCels"
    /\ conv.celNo > Len(conv.cels)
    /\ conv' = [conv EXCEPT !.pc = "encodePNG"]
    /\ UNCHANGED <<rd, bl, crc, enc, cli, tpl, rng, sse, st, thr>>

\* const pngData = await encodePNG(header.width, header.height, rgbaData)
ConvEncodePNG ==
    /\ conv.pc = "encodePNG"
    /\ conv' = [conv EXCEPT !.pc = "writeFile",
                            !.pngData = encodePNG(conv.header.width, conv.header.height,
                                                  conv.image)]
    /\ UNCHANGED <<rd, bl, crc, enc, cli, tpl, rng, sse, st, thr>>

\* await ensureDir(dirname(outputPath)); await Deno.writeFile(outputPath, pngData)
ConvWriteFile ==
    /\ conv.pc = "writeFile"
    /\ \/ conv' = [conv EXCEPT !.pc = "exit", !.exitCode = 0,
                               !.output = [written |-> TRUE, data |-> conv.pngData]]
       \/ conv' = Throw("writeFile failed")
    /\ UNCHANGED <<rd, bl, crc, enc, cli, tpl, rng, sse, st, thr>>

\* catch (error) { console.error("Error:", ...); Deno.exit(1) }
ConvCatch ==
    /\ conv.pc = "catch"
    /\ conv' = [conv EXCEPT !.pc = "exit", !.exitCode = 1,
                            !.errors = Append(@, "Error: " \o conv.thrown)]
    /\ UNCHANGED <<rd, bl, crc, enc, cli, tpl, rng, sse, st, thr>>

Next ==
    \/ ConvReadFile
    \/ ConvParseHeader
    \/ ConvCheckDepth
    \/ ConvParseFrame
    \/ ConvFramesDone
    \/ ConvChunk
    \/ ConvBreak
    \/ ConvCreateImage
    \/ ConvDrawCel
    \/ ConvReturnImage
    \/ ConvEncodePNG
    \/ ConvWriteFile
    \/ ConvCatch

Init == ConvInit

Spec == Init /\ [][Next]_vars


(***************************************************************************)
(* Properties of the conversion.                                           *)
(***************************************************************************)
\* createRGBAImage has returned and nothing has been encoded yet
Composited == conv.pc = "encodePNG"

\* the run was not ended by the file system
NoIOFailure == conv.thrown \notin {"readFile failed", "writeFile failed"}

\* the four bytes of canvas pixel (sx, sy)
CanvasPixel(image, sx, sy) ==
    SubSeq(image, (sy * conv.header.width + sx) * 4 + 1,
           (sy * conv.header.width + sx) * 4 + 4)

\* the CEL chunks of the requested frame as they lie in the document
DocCels ==
    IF conv.frameIndex + 1 \in 1..Len(conv.doc.frames)
    THEN SelectSeq(conv.doc.frames[conv.frameIndex + 1].chunks,
                   LAMBDA c : c.type = CEL)
    ELSE <<>>

\* the bytes that follow the width and height of a raw cel in its chunk
DocPixels(chunk) == SubSeq(chunk.payload, 21, Len(chunk.payload))

\* frame 0 holds one visible layer of opacity 255 and one raw cel of opacity
\* 255 at (0, 0) that is as large as the canvas and has all its bytes
IdentityCase ==
    /\ Composited
    /\ conv.frameIndex = 0
    /\ Len(conv.layers) = 1
    /\ conv.layers[1].visible
    /\ conv.layers[1].opacity = 255
    /\ Len(conv.cels) = 1
    /\ Len(DocCels) = 1
    /\ conv.cels[1].layerIndex = 0
    /\ conv.cels[1].celType = 0
    /\ conv.cels[1].opacity = 255
    /\ conv.cels[1].x = 0
    /\ conv.cels[1].y = 0
    /\ conv.cels[1].width = conv.header.width
    /\ conv.cels[1].height = conv.header.height
    /\ Len(DocPixels(DocCels[1])) = conv.header.width * conv.header.height * 4

\* C1: in the identity case the canvas is byte for byte the cel's pixel
\* bytes, whatever the values of R, G, B and A are.
C1_IdentityAllBytes == IdentityCase => conv.image = DocPixels(DocCels[1])

\* what createRGBAImage yields in the identity case: the cel's pixel where
\* its alpha is not 0, and (0, 0, 0, 0) where it is 0 (outA > 0 is false and
\* the colour channels are never written)
IdentityUpToTransparent ==
    IdentityCase =>
        /\ Len(conv.image) = conv.header.width * conv.header.height * 4
        /\ \A k \in 0..(conv.header.width * conv.header.height - 1) :
            LET src == SubSeq(DocPixels(DocCels[1]), 4 * k + 1, 4 * k + 4)
                dst == SubSeq(conv.image, 4 * k + 1, 4 * k + 4)
            IN  dst = IF src[4] > 0 THEN src ELSE <<0, 0, 0, 0>>

IdentityReached ==
    /\ IdentityCase
    /\ conv.image = <<255, 0, 128, 255>> \o <<1, 2, 3, 128>> \o <<0, 0, 0, 0>>
                      \o <<200, 100, 50, 255>>

\* the magic number as it lies in the file on disk (-1: the file is too short)
DiskMagic ==
    LET file == FileBytes(conv.doc)
    IN  IF Len(file) >= 6 THEN file[5] + 256 * file[6] ELSE -1

\* C2: when the header's magic number is not 0xA5E0 the run never gets past
\* parseHeader: nothing is composited, encoded or written, and a run that
\* read the file ends in the catch block with the invalid-file error and
\* exit code 1.
C2_BadMagicFatal ==
    DiskMagic # 42464 =>
        /\ conv.pc \in {"readFile", "parseHeader", "catch", "exit"}
        /\ ~conv.output.written
        /\ conv.pngData = <<>>
        /\ (conv.pc \in {"catch", "exit"} /\ NoIOFailure) =>
                conv.thrown = "Invalid Aseprite file: wrong magic number"
        /\ conv.pc = "exit" => conv.exitCode = 1

C2_Witness ==
    /\ DiskMagic = 42465
    /\ conv.pc = "exit"
    /\ conv.thrown = "Invalid Aseprite file: wrong magic number"
    /\ conv.exitCode = 1


\* a 16-bit little-endian field of a chunk payload, read from the bytes
Field16(data, o) == IF Len(data) >= o + 2 THEN data[o + 1] + 256 * data[o + 2] ELSE 0

\* the payload of a raw cel that declares more pixel bytes than it holds
TruncatedChunk(chunk) ==
    /\ chunk.type = CEL
    /\ Len(chunk.data) >= 20
    /\ Field16(chunk.data, 7) = 0
    /\ Len(chunk.data) - 20 < Field16(chunk.data, 16) * Field16(chunk.data, 18) * 4

\* canvas pixel (sx, sy) gets all four bytes of a source pixel from the cel
HasSource(cel, sx, sy) ==
    /\ sx - cel.x \in 0..(cel.width - 1)
    /\ sy - cel.y \in 0..(cel.height - 1)
    /\ ((sy - cel.y) * cel.width + (sx - cel.x)) * 4 + 4 <= Len(cel.pixels)

\* a step of the chunk loop on the chunk it is at
ChunkStep(chunk) ==
    /\ conv.pc = "chunks"
    /\ conv.chunkNo <= Len(conv.chunks)
    /\ chunk = conv.chunks[conv.chunkNo]
    /\ conv' # conv

\* a step of the cel loop of createRGBAImage on the cel it is at
DrawStep(cel) ==
    /\ conv.pc = "drawCels"
    /\ conv.celNo <= Len(conv.cels)
    /\ cel = conv.cels[conv.celNo]
    /\ conv' # conv

\* the canvas pixels that the step leaves as they were
Kept(sx, sy) == CanvasPixel(conv'.image, sx, sy) = CanvasPixel(conv.image, sx, sy)

C4_Parse ==
    \A chunk \in {conv.chunks[k] : k \in 1..Len(conv.chunks)} :
        (ChunkStep(chunk) /\ TruncatedChunk(chunk)) =>
            /\ conv'.pc = "chunks"
            /\ conv'.thrown = ""
            /\ conv'.chunkNo = conv.chunkNo + 1
            /\ Len(conv'.cels) = Len(conv.cels) + 1
            /\ conv'.cels[Len(conv'.cels)].pixels = SubSeq(chunk.data, 21, Len(chunk.data))
            /\ conv'.warnings = Append(conv.warnings, "Not enough data for raw cel")
            /\ conv'.errors = conv.errors

C4_Draw ==
    \A cel \in {conv.cels[k] : k \in 1..Len(conv.cels)} :
        (DrawStep(cel) /\ cel.celType = 0
            /\ Len(cel.pixels) < cel.width * cel.height * 4) =>
            /\ conv'.pc = "drawCels"
            /\ conv'.thrown = ""
            /\ conv'.celNo = conv.celNo + 1
            /\ Len(conv'.image) = Len(conv.image)
            /\ \A sx \in 0..(conv.header.width - 1), sy \in 0..(conv.header.height - 1) :
                ~HasSource(cel, sx, sy) => Kept(sx, sy)

\* C4: a raw cel that declares more pixel bytes than its chunk holds is
\* parsed without a throw, with a warning and with exactly the bytes that are
\* there; drawing it throws nothing and leaves every canvas pixel whose four
\* source bytes are not all present as it was.
C4_TruncatedCelDegrades == [][C4_Parse /\ C4_Draw]_vars

C4_Witness ==
    /\ conv.pc = "drawCels"
    /\ conv.celNo = 3
    /\ Len(conv.cels[2].pixels) = 5
    /\ conv.cels[2].width * conv.cels[2].height = 2
    /\ conv.warnings = <<"Not enough data for raw cel">>
    /\ conv.image = <<255, 0, 128, 255>> \o <<0, 0, 0, 255>>

C5_Parse ==
    \A chunk \in {conv.chunks[k] : k \in 1..Len(conv.chunks)} :
        (ChunkStep(chunk) /\ chunk.type = CEL /\ Len(chunk.data) >= 9
            /\ Field16(chunk.data, 7) = 1) =>
            /\ conv'.pc = "chunks"
            /\ conv'.thrown = ""
            /\ conv'.chunkNo = conv.chunkNo + 1
            /\ Len(conv'.cels) = Len(conv.cels) + 1
            /\ conv'.cels[Len(conv'.cels)].pixels = <<>>
            /\ conv'.cels[Len(conv'.cels)].width = conv.header.width
            /\ conv'.cels[Len(conv'.cels)].height = conv.header.height
            /\ conv'.warnings =
                   Append(conv.warnings, "Linked cels (type 1) not fully supported yet")
            /\ conv'.errors = conv.errors

C5_Draw ==
    \A cel \in {conv.cels[k] : k \in 1..Len(conv.cels)} :
        (DrawStep(cel) /\ cel.celType = 1) =>
            /\ conv'.pc = "drawCels"
            /\ conv'.thrown = ""
            /\ conv'.image = conv.image

C5_OnlyLinked ==
    (Composited /\ \A k \in 1..Len(conv.cels) : conv.cels[k].celType = 1) =>
        /\ Len(conv.image) = conv.header.width * conv.header.height * 4
        /\ \A k \in 1..Len(conv.image) : conv.image[k] = 0

\* C5: a linked cel (type 1) is parsed without a throw, with a warning, with
\* no pixel data and with the canvas size as its size; drawing it changes no
\* canvas pixel, so a canvas that holds only linked cels stays transparent.
C5_LinkedCelIgnored == [][C5_Parse /\ C5_Draw]_vars /\ []C5_OnlyLinked

C5_Witness ==
    /\ Composited
    /\ Len(conv.cels) = 2
    /\ \A k \in 1..2 : conv.cels[k].celType = 1 /\ conv.cels[k].pixels = <<>>
    /\ Len(conv.warnings) = 2
    /\ conv.header.width = 2
    /\ conv.image = Zeros(conv.header.width * conv.header.height * 4)

\* a raw cel with all its bytes, alpha 255 in every pixel, opacity 255, on a
\* visible layer of opacity 255
FullyOpaque(cel) ==
    /\ cel.celType = 0
    /\ cel.opacity = 255
    /\ cel.layerIndex < Len(conv.layers)
    /\ conv.layers[cel.layerIndex + 1].visible
    /\ conv.layers[cel.layerIndex + 1].opacity = 255
    /\ Len(cel.pixels) = cel.width * cel.height * 4
    /\ \A k \in 1..(cel.width * cel.height) : cel.pixels[4 * k] = 255

\* the cel's own pixel that lands on canvas pixel (sx, sy)
CelPixel(cel, sx, sy) ==
    SubSeq(cel.pixels, ((sy - cel.y) * cel.width + (sx - cel.x)) * 4 + 1,
           ((sy - cel.y) * cel.width + (sx - cel.x)) * 4 + 4)

\* C6: where two fully opaque cels overlap, the canvas holds the pixel of the
\* one that is later in the cel list (and under no cel after it), whatever
\* the earlier cel's colour and whatever the two layer indices.
C6_LaterOpaqueCelWins ==
    Composited =>
        \A i \in 1..Len(conv.cels), j \in 1..Len(conv.cels) :
            (i < j /\ FullyOpaque(conv.cels[i]) /\ FullyOpaque(conv.cels[j])) =>
                \A sx \in 0..(conv.header.width - 1), sy \in 0..(conv.header.height - 1) :
                    (/\ HasSource(conv.cels[i], sx, sy)
                     /\ HasSource(conv.cels[j], sx, sy)
                     /\ \A k \in (j + 1)..Len(conv.cels) : ~HasSource(conv.cels[k], sx, sy))
                        => CanvasPixel(conv.image, sx, sy) = CelPixel(conv.cels[j], sx, sy)

C6_Witness ==
    /\ Composited
    /\ Len(conv.cels) = 2
    /\ FullyOpaque(conv.cels[1]) /\ FullyOpaque(conv.cels[2])
    /\ conv.cels[1].layerIndex = 1 /\ conv.cels[2].layerIndex = 0
    /\ conv.cels[2].x = 1 /\ conv.cels[2].y = 0
    /\ CelPixel(conv.cels[1], 1, 0) = <<200, 100, 50, 255>>
    /\ CanvasPixel(conv.image, 1, 0) = <<0, 0, 0, 255>>
    /\ CanvasPixel(conv.image, 0, 0) = <<255, 0, 128, 255>>


\* the file on disk holds the whole document
Intact == conv.doc.length = WholeFile

\* the frames the frame loop reads: those up to and including the requested
\* one, all of them when no frame has the requested index
FramesRead ==
    1..(IF conv.frameIndex < 0 THEN Len(conv.doc.frames)
        ELSE Min(Len(conv.doc.frames), conv.frameIndex + 1))

\* the header is sound and says a colour depth other than 32
BadDepth == Intact /\ conv.doc.magic = 42464 /\ conv.doc.colorDepth # 32

\* the header is sound and a frame that the loop reads starts with a magic
\* number other than 0xF1FA
BadFrameMagic ==
    /\ Intact /\ conv.doc.magic = 42464 /\ conv.doc.colorDepth = 32
    /\ \E k \in FramesRead : conv.doc.frames[k].magic # 61946

\* C11: a colour depth other than 32, and a frame whose magic number is not
\* 0xF1FA, each end the run with an error before anything is composited,
\* encoded or written: the run goes to the catch block with the matching
\* message and exits with code 1, and no output exists.
C11_DepthAndFrameMagicFatal ==
    (BadDepth \/ BadFrameMagic) =>
        /\ conv.pc \in {"readFile", "parseHeader", "checkDepth", "frames", "catch", "exit"}
        /\ conv.image = <<>>
        /\ conv.pngData = <<>>
        /\ ~conv.output.written
        /\ (conv.pc \in {"catch", "exit"} /\ NoIOFailure) =>
                conv.thrown = IF BadDepth THEN "Unsupported color depth"
                              ELSE "Invalid frame: wrong magic number"
        /\ conv.pc = "exit" => conv.exitCode = 1

C11_WitnessDepth ==
    /\ BadDepth /\ conv.doc.colorDepth = 16
    /\ conv.pc = "exit" /\ conv.exitCode = 1
    /\ conv.thrown = "Unsupported color depth"

\* the second frame is the one with the wrong magic number: the first was
\* read and skipped
C11_Witness ==
    /\ BadFrameMagic
    /\ conv.frameIndex = 1 /\ conv.i = 1
    /\ conv.doc.frames[1].magic = 61946 /\ conv.doc.frames[2].magic = 0
    /\ conv.pc = "exit" /\ conv.exitCode = 1
    /\ conv.thrown = "Invalid frame: wrong magic number"


\* a compressed cel (type 2) with data whose inflation fails
CorruptChunk(chunk) ==
    /\ chunk.type = CEL
    /\ Len(chunk.data) > 20
    /\ Field16(chunk.data, 7) = 2
    /\ ~inflate(SubSeq(chunk.data, 21, Len(chunk.data))).ok

C12_Parse ==
    \A chunk \in {conv.chunks[k] : k \in 1..Len(conv.chunks)} :
        (ChunkStep(chunk) /\ CorruptChunk(chunk)) =>
            /\ conv'.pc = "chunks"
            /\ conv'.thrown = ""
            /\ conv'.chunkNo = conv.chunkNo + 1
            /\ Len(conv'.cels) = Len(conv.cels) + 1
            /\ LET pixels == conv'.cels[Len(conv'.cels)].pixels
               IN  /\ Len(pixels) = Field16(chunk.data, 16) * Field16(chunk.data, 18) * 4
                   /\ \A k \in 1..Len(pixels) : pixels[k] = 0
            /\ conv'.errors = Append(conv.errors, "ERROR during decompression")
            /\ conv'.warnings = conv.warnings

\* C12: when the data of a compressed cel does not inflate, parseCelChunk
\* throws nothing, logs the error and returns celWidth * celHeight * 4 zero
\* bytes as the pixels, and the chunk loop goes on to the next chunk.
C12_InflateFailureDegrades == [][C12_Parse]_vars

\* after the corrupt 2 x 1 cel the raw cel that follows it was decoded and
\* drawn over the background
C12_Witness ==
    /\ Composited
    /\ Len(conv.cels) = 3
    /\ conv.cels[2].celType = 2
    /\ conv.cels[2].pixels = Zeros(8)
    /\ conv.errors = <<"ERROR during decompression">>
    /\ conv.image = <<255, 0, 128, 255>> \o <<0, 0, 0, 255>>


\* a defect that the converter treats as fatal: a file that is cut short, a
\* wrong magic number in the header, a colour depth other than 32, a wrong
\* magic number in a frame that is read
FatalDefect == ~Intact \/ conv.doc.magic # 42464 \/ BadDepth \/ BadFrameMagic

\* C14: a document without a fatal defect, whatever degraded cels and
\* unknown chunks it holds, never reaches the catch block: unless the file
\* system fails the run ends with the output written and exit code 0.  The
\* catch block is reached only with a thrown error, prints its message and
\* exits with code 1.
C14_DegradedNeverFails ==
    /\ (~FatalDefect /\ NoIOFailure) =>
            /\ conv.pc # "catch"
            /\ conv.thrown = ""
            /\ conv.pc = "exit" => (conv.exitCode = 0 /\ conv.output.written)
    /\ conv.thrown # "" => conv.pc \in {"catch", "exit"}
    /\ conv.pc = "catch" => conv.thrown # ""
    /\ (conv.pc = "exit" /\ conv.exitCode # 0) =>
            /\ conv.exitCode = 1
            /\ conv.thrown # ""
            /\ ~conv.output.written
            /\ Len(conv.errors) > 0
            /\ conv.errors[Len(conv.errors)] = "Error: " \o conv.thrown

\* all five degraded conditions in one frame
C14_Witness ==
    /\ ~FatalDefect
    /\ Len(conv.chunks) = 6
    /\ conv.warnings = <<"Not enough data for raw cel",
                         "Linked cels (type 1) not fully supported yet",
                         "Unknown cel type">>
    /\ conv.errors = <<"ERROR during decompression">>
    /\ conv.pc = "exit" /\ conv.exitCode = 0 /\ conv.output.written


\* the LAYER chunks of the requested frame as they lie in the document
DocLayers ==
    IF conv.frameIndex + 1 \in 1..Len(conv.doc.frames)
    THEN SelectSeq(conv.doc.frames[conv.frameIndex + 1].chunks,
                   LAMBDA c : c.type = LAYER)
    ELSE <<>>

\* the stages of one conversion, by the statement about to run
Decoding == {"readFile", "parseHeader", "checkDepth", "frames", "chunks"}
Compositing == {"createImage", "drawCels"}
Encoding == {"encodePNG"}
Writing == {"writeFile"}

C15_State ==
    /\ conv.pc \in Decoding =>
            conv.image = <<>> /\ conv.pngData = <<>> /\ ~conv.output.written
    /\ conv.pc \in Compositing \cup Encoding \cup Writing =>
            /\ Intact => Len(conv.layers) = Len(DocLayers)
            /\ Intact => Len(conv.cels) = Len(DocCels)
            /\ conv.pc = "createImage" \/
                   Len(conv.image) = conv.header.width * conv.header.height * 4
    /\ conv.pc \in Compositing \cup Encoding =>
            conv.pngData = <<>> /\ ~conv.output.written
    /\ conv.pc \in Encoding \cup Writing => conv.celNo = Len(conv.cels) + 1
    /\ conv.pc \in Writing => conv.pngData # <<>> /\ ~conv.output.written
    /\ conv.output.written =>
            /\ conv.pc = "exit"
            /\ conv.pngData # <<>>
            /\ conv.output.data = conv.pngData

C15_Step ==
    /\ conv.pc \in Compositing \cup Encoding \cup Writing =>
            conv'.layers = conv.layers /\ conv'.cels = conv.cels
    /\ conv.pc \in Encoding \cup Writing => conv'.image = conv.image
    /\ conv.pc \in Writing => conv'.pngData = conv.pngData

\* C15: the stages of a conversion follow one another.  While the document
\* is decoded nothing is composited, encoded or written; compositing starts
\* with every layer and cel chunk of the requested frame decoded and the
\* lists do not change afterwards; encoding starts with every cel drawn and
\* the canvas does not change afterwards; the file is written after encoding
\* and holds the encoded bytes.
C15_StagesInOrder == []C15_State /\ [][C15_Step]_vars

\* the file is written; the frame held a compressed cel, decoded before the
\* canvas was made
C15_Witness ==
    /\ conv.output.written
    /\ Len(conv.cels) = 3
    /\ conv.cels[2].celType = 2
    /\ Len(conv.image) = 8

\* the end of frame k (1-based) in the file
RECURSIVE FrameEnd(_)
FrameEnd(k) ==
    IF k = 0 THEN 128 ELSE FrameEnd(k - 1) + Len(FrameBytes(conv.doc.frames[k]))

C19_State ==
    /\ conv.pc = "frames" => conv.layers = <<>> /\ conv.cels = <<>>
    /\ conv.pc = "frames" =>
            conv.i <= Max(conv.frameIndex, conv.header.frames)
    /\ conv.pc = "chunks" => conv.i = conv.frameIndex
    /\ (Intact /\ conv.doc.magic = 42464) =>
            \A last \in {k \in FramesRead : k + 1 \notin FramesRead} :
                conv.offset <= FrameEnd(last)
    /\ (Intact /\ conv.pc \in Compositing \cup Encoding \cup Writing) =>
            /\ Len(conv.layers) = Len(DocLayers)
            /\ \A k \in 1..Len(DocLayers) :
                    /\ conv.layers[k].flags = Field16(DocLayers[k].payload, 0)
                    /\ conv.layers[k].opacity = DocLayers[k].payload[13]
            /\ Len(conv.cels) = Len(DocCels)
            /\ \A k \in 1..Len(DocCels) :
                    /\ conv.cels[k].layerIndex = Field16(DocCels[k].payload, 0)
                    /\ conv.cels[k].opacity = DocCels[k].payload[7]
                    /\ conv.cels[k].celType = Field16(DocCels[k].payload, 7)
                    /\ conv.cels[k].celType = 0 =>
                           conv.cels[k].pixels = DocPixels(DocCels[k])
    /\ (~FatalDefect /\ NoIOFailure) => conv.thrown = ""

C19_Step ==
    (conv.pc = "frames" /\ conv'.pc = "frames") =>
        /\ conv.i # conv.frameIndex
        /\ conv'.i = conv.i + 1
        /\ conv'.offset >= conv.offset
        /\ conv'.layers = <<>> /\ conv'.cels = <<>>

\* C19: the frame loop stops at the requested frame.  Frames before it only
\* move the cursor; the layer and cel lists are exactly the LAYER and CEL
\* chunks of the requested frame, in file order; the cursor never passes the
\* end of the requested frame, so a later frame is neither read nor checked.
C19_StopsAtRequestedFrame == []C19_State /\ [][C19_Step]_vars

\* frame 1 of three was requested: frame 0 was skipped, frame 2 (whose magic
\* number is wrong) was never read
C19_Witness ==
    /\ Len(conv.doc.frames) = 3
    /\ conv.doc.frames[3].magic = 0
    /\ conv.frameIndex = 1
    /\ conv.pc = "exit" /\ conv.exitCode = 0
    /\ Len(conv.layers) = 1 /\ conv.layers[1].opacity = 128
    /\ Len(conv.cels) = 1
    /\ conv.offset = FrameEnd(2)

(***************************************************************************)
(* The command line of aseprite_to_png.ts.  Strings are sequences of       *)
(* one-character strings.  dirname, basename and join are those of         *)
(* @std/path for POSIX paths; parseArgs has already sorted the arguments   *)
(* into args.input, args.output, args.frame and args.help (None: the       *)
(* option was not given).                                                  *)
(***************************************************************************)
None == <<"undefined">>

DotAseprite == <<".", "a", "s", "e", "p", "r", "i", "t", "e">>
DotAse == <<".", "a", "s", "e">>
DotPng == <<".", "p", "n", "g">>

EndsWith(s, suffix) ==
    /\ Len(suffix) <= Len(s)
    /\ SubSeq(s, Len(s) - Len(suffix) + 1, Len(s)) = suffix

\* the largest member of a set of naturals, 0 for the empty set
Last(S) == IF S = {} THEN 0 ELSE CHOOSE i \in S : \A j \in S : j <= i

\* stripTrailingSeparators: trailing slashes go, but not the first character
stripTrailingSeparators(path) ==
    LET keep == Last({i \in 2..Len(path) : path[i] # "/"})
    IN  IF Len(path) <= 1 THEN path ELSE SubSeq(path, 1, Max(keep, 1))

\* dirname of @std/path
dirname(path) ==
    LET end == Last({i \in 2..Len(path) :
                        path[i] = "/" /\ \E j \in (i + 1)..Len(path) : path[j] # "/"})
    IN  IF Len(path) = 0 THEN <<".">>
        ELSE IF end = 0 THEN (IF path[1] = "/" THEN <<"/">> ELSE <<".">>)
        ELSE stripTrailingSeparators(SubSeq(path, 1, end - 1))

\* stripSuffix of @std/path: a suffix as long as the name is not stripped
stripSuffix(name, suffix) ==
    IF Len(suffix) >= Len(name) THEN name
    ELSE IF EndsWith(name, suffix) THEN SubSeq(name, 1, Len(name) - Len(suffix))
    ELSE name

\* the part of the path after its last slash, trailing slashes aside
lastPathSegment(path) ==
    LET p == stripTrailingSeparators(path)
        slash == Last({i \in 1..Len(p) : p[i] = "/"})
    IN  IF p = <<"/">> THEN p ELSE SubSeq(p, slash + 1, Len(p))

\* basename(path, suffix) of @std/path
basename(path, suffix) ==
    IF Len(path) = 0 THEN path ELSE stripSuffix(lastPathSegment(path), suffix)

RECURSIVE splitPath(_, _, _)
\* the segments between the slashes of path[i..], cur being the one begun
splitPath(path, i, cur) ==
    IF i > Len(path) THEN <<cur>>
    ELSE IF path[i] = "/" THEN <<cur>> \o splitPath(path, i + 1, <<>>)
    ELSE splitPath(path, i + 1, Append(cur, path[i]))

RECURSIVE normalizeSegments(_, _, _, _)
\* normalizeString of @std/path: empty and "." segments go, ".." takes the
\* segment before it (or stays when there is none and the path is relative)
normalizeSegments(segs, i, out, allowAboveRoot) ==
    IF i > Len(segs) THEN out
    ELSE LET seg == segs[i]
             next ==
                 IF seg = <<>> \/ seg = <<".">> THEN out
                 ELSE IF seg = <<".", ".">>
                 THEN (IF Len(out) > 0 /\ out[Len(out)] # <<".", ".">>
                       THEN SubSeq(out, 1, Len(out) - 1)
                       ELSE IF allowAboveRoot THEN Append(out, seg) ELSE out)
                 ELSE Append(out, seg)
         IN  normalizeSegments(segs, i + 1, next, allowAboveRoot)

RECURSIVE joinSegments(_, _)
joinSegments(segs, i) ==
    IF i > Len(segs) THEN <<>>
    ELSE segs[i] \o (IF i < Len(segs) THEN <<"/">> ELSE <<>>) \o joinSegments(segs, i + 1)

\* normalize of @std/path
normalize(path) ==
    LET isAbsolute == Len(path) > 0 /\ path[1] = "/"
        trailing == Len(path) > 0 /\ path[Len(path)] = "/"
        body == joinSegments(
                    normalizeSegments(splitPath(path, 1, <<>>), 1, <<>>, ~isAbsolute), 1)
        rel == IF Len(body) = 0 /\ ~isAbsolute THEN <<".">> ELSE body
        full == IF Len(rel) > 0 /\ trailing THEN rel \o <<"/">> ELSE rel
    IN  IF Len(path) = 0 THEN <<".">>
        ELSE IF isAbsolute THEN <<"/">> \o full ELSE full

\* join(a, b) of @std/path
join(a, b) ==
    IF Len(a) = 0 /\ Len(b) = 0 THEN <<".">>
    ELSE IF Len(a) = 0 THEN normalize(b)
    ELSE IF Len(b) = 0 THEN normalize(a)
    ELSE normalize(a \o <<"/">> \o b)

\* s.replace(/\.ase$/, ".png")
replaceAseAtEnd(s) ==
    IF EndsWith(s, DotAse) THEN SubSeq(s, 1, Len(s) - Len(DotAse)) \o DotPng ELSE s

DecimalDigits == <<"0", "1", "2", "3", "4", "5", "6", "7", "8", "9">>

IsDigit(ch) == \E d \in 1..10 : DecimalDigits[d] = ch

DigitValue(ch) == (CHOOSE d \in 1..10 : DecimalDigits[d] = ch) - 1

RECURSIVE digitsValue(_, _, _)
\* the value of the digits that s[i..] starts with, acc being the value so far
digitsValue(s, i, acc) ==
    IF i > Len(s) \/ ~IsDigit(s[i]) THEN acc
    ELSE digitsValue(s, i + 1, 10 * acc + DigitValue(s[i]))

\* parseInt(s, 10): blanks, an optional sign, then digits; NaN without a digit
parseInt(s) ==
    LET start == Last({i \in 1..Len(s) : \A j \in 1..i : s[j] = " "}) + 1
        signed == start <= Len(s) /\ s[start] \in {"-", "+"}
        first == IF signed THEN start + 1 ELSE start
    IN  IF first > Len(s) \/ ~IsDigit(s[first]) THEN NaN
        ELSE IF signed /\ s[start] = "-" THEN 0 - digitsValue(s, first, 0)
        ELSE digitsValue(s, first, 0)

\* a string option as a condition: undefined and "" are falsy
Truthy(s) == s # None /\ s # <<>>

\* (args.output as string) || join(dirname(inputPath),
\*     basename(inputPath, ".aseprite") + ".png").replace(/\.ase$/, ".png")
outputPathFor(output, inputPath) ==
    IF Truthy(output) THEN output
    ELSE replaceAseAtEnd(join(dirname(inputPath),
                              basename(inputPath, DotAseprite) \o DotPng))

\* args.frame ? parseInt(args.frame as string, 10) : 0
frameIndexFor(frame) == IF Truthy(frame) THEN parseInt(frame) ELSE 0

InputPaths ==
    LET s == <<"s">>
        d == <<"d", "/">>
    IN  {s \o DotAseprite, s \o DotAse, d \o s \o DotAseprite, d \o s \o DotAse,
         <<"/">> \o s \o DotAse, <<"/">> \o d \o s \o DotAseprite,
         <<".", "/">> \o s \o DotAseprite, <<".", ".", "/">> \o s \o DotAse,
         s \o DotAse \o DotAseprite, <<"d">> \o DotAse \o <<"/">> \o s \o DotAseprite,
         s \o DotPng, s, None, <<>>}

OutputPaths == {None, <<>>, <<"o">> \o DotPng}

FrameOptions ==
    {None, <<>>, <<"0">>, <<"1">>, <<"2">>, <<"1", "0">>, <<"1", "x">>, <<"x">>,
     <<"-", "1">>, <<" ", "2">>}

CliInit ==
    /\ \E input \in InputPaths, output \in OutputPaths, frame \in FrameOptions,
          help \in BOOLEAN :
        cli = [pc |-> "main",
               args |-> [input |-> input, output |-> output, frame |-> frame,
                         help |-> help],
               inputPath |-> None, outputPath |-> None, frameIndex |-> NaN,
               exitCode |-> -1]
    /\ rd = Idle /\ conv = Idle /\ bl = Idle /\ crc = Idle /\ enc = Idle
    /\ tpl = Idle /\ rng = Idle /\ sse = Idle /\ st = Idle /\ thr = Idle

\* if (args.help || !args.input) { console.log(usage); Deno.exit(args.help ? 0 : 1) }
CliUsage ==
    /\ cli.pc = "main"
    /\ cli.args.help \/ ~Truthy(cli.args.input)
    /\ cli' = [cli EXCEPT !.pc = "exit", !.exitCode = IF cli.args.help THEN 0 ELSE 1]
    /\ UNCHANGED <<rd, conv, bl, crc, enc, tpl, rng, sse, st, thr>>

\* const inputPath = args.input as string
CliInputPath ==
    /\ cli.pc = "main"
    /\ ~(cli.args.help \/ ~Truthy(cli.args.input))
    /\ cli' = [cli EXCEPT !.pc = "outputPath", !.inputPath = cli.args.input]
    /\ UNCHANGED <<rd, conv, bl, crc, enc, tpl, rng, sse, st, thr>>

\* const outputPath = ...
CliOutputPath ==
    /\ cli.pc = "outputPath"
    /\ cli' = [cli EXCEPT !.pc = "frameIndex",
                          !.outputPath = outputPathFor(cli.args.output, cli.inputPath)]
    /\ UNCHANGED <<rd, conv, bl, crc, enc, tpl, rng, sse, st, thr>>

\* const frameIndex = ...
CliFrameIndex ==
    /\ cli.pc = "frameIndex"
    /\ cli' = [cli EXCEPT !.pc = "convert", !.frameIndex = frameIndexFor(cli.args.frame)]
    /\ UNCHANGED <<rd, conv, bl, crc, enc, tpl, rng, sse, st, thr>>

\* try { await convertAsepriteToPNG(inputPath, outputPath, frameIndex) }: the
\* call returns and the process ends
CliConverted ==
    /\ cli.pc = "convert"
    /\ cli' = [cli EXCEPT !.pc = "exit", !.exitCode = 0]
    /\ UNCHANGED <<rd, conv, bl, crc, enc, tpl, rng, sse, st, thr>>

\* catch (error) { console.error(...); Deno.exit(1) }: the call throws
CliCatch ==
    /\ cli.pc = "convert"
    /\ cli' = [cli EXCEPT !.pc = "exit", !.exitCode = 1]
    /\ UNCHANGED <<rd, conv, bl, crc, enc, tpl, rng, sse, st, thr>>

CliNext ==
    \/ CliUsage
    \/ CliInputPath
    \/ CliOutputPath
    \/ CliFrameIndex
    \/ CliConverted
    \/ CliCatch

SpecCli == CliInit /\ [][CliNext]_vars

\* the name with the extension it ends in (.aseprite or .ase) taken off
Stem(name) ==
    IF EndsWith(name, DotAseprite) THEN SubSeq(name, 1, Len(name) - Len(DotAseprite))
    ELSE IF EndsWith(name, DotAse) THEN SubSeq(name, 1, Len(name) - Len(DotAse))
    ELSE name

\* C13: without an output option the converter is called with the input path
\* with .aseprite or .ase replaced by .png, in the same directory and with
\* the same base name; without a frame option it is called with frame 0.
C13_DefaultOutputAndFrame ==
    cli.pc = "convert" =>
        /\ (~Truthy(cli.args.output)
                /\ (EndsWith(cli.inputPath, DotAseprite) \/ EndsWith(cli.inputPath, DotAse)))
            => /\ dirname(cli.outputPath) = normalize(dirname(cli.inputPath))
               /\ lastPathSegment(cli.outputPath) =
                      Stem(lastPathSegment(cli.inputPath)) \o DotPng
        /\ cli.args.frame = None => cli.frameIndex = 0

\* the part of C13 that the command line does keep: inputs ending in
\* .aseprite with a name before the extension, and the frame index
DefaultForAseprite ==
    cli.pc = "convert" =>
        /\ (~Truthy(cli.args.output) /\ EndsWith(cli.inputPath, DotAseprite)
                /\ Len(lastPathSegment(cli.inputPath)) > Len(DotAseprite))
            => /\ dirname(cli.outputPath) = normalize(dirname(cli.inputPath))
               /\ lastPathSegment(cli.outputPath) =
                      Stem(lastPathSegment(cli.inputPath)) \o DotPng
        /\ ~Truthy(cli.args.frame) => cli.frameIndex = 0


(***************************************************************************)
(* template and expandEnvVars of raiment-shell.  Strings are sequences of  *)
(* one-character strings.  vars and the environment are lists of           *)
(* <<name, value>> pairs; a value is a string or an object (an array is an *)
(* object whose names are indices).                                        *)
(***************************************************************************)
Upper ==
    {"A", "B", "C", "D", "E", "F", "G", "H", "I", "J", "K", "L", "M", "N", "O", "P",
     "Q", "R", "S", "T", "U", "V", "W", "X", "Y", "Z"}

Lower ==
    {"a", "b", "c", "d", "e", "f", "g", "h", "i", "j", "k", "l", "m", "n", "o", "p",
     "q", "r", "s", "t", "u", "v", "w", "x", "y", "z"}

Digit == {DecimalDigits[d] : d \in 1..10}

\* [A-Za-z_]
NameStart == Upper \cup Lower \cup {"_"}

\* [A-ZaZ0-9_] as the two regular expressions spell it: of the lower-case
\* letters only a is in the class
NameRest == Upper \cup {"a", "Z"} \cup Digit \cup {"_"}

Str(chars) == [kind |-> "string", chars |-> chars]
Obj(fields) == [kind |-> "object", fields |-> fields]
Missing == [kind |-> "undefined"]

\* object[name]
Lookup(pairs, name) ==
    IF \E k \in 1..Len(pairs) : pairs[k][1] = name
    THEN pairs[CHOOSE k \in 1..Len(pairs) : pairs[k][1] = name][2]
    ELSE Missing

\* String(value), as String.prototype.replace does with what the callback
\* returns
stringOf(value) ==
    IF value.kind = "string" THEN value.chars ELSE <<"[object Object]">>

\* the index after the longest run of characters of class that starts at i
RunEnd(s, i, class) ==
    CHOOSE j \in i..(Len(s) + 1) :
        /\ \A k \in i..(j - 1) : s[k] \in class
        /\ j = Len(s) + 1 \/ s[j] \notin class

StartsAt(s, i, t) == i + Len(t) - 1 <= Len(s) /\ SubSeq(s, i, i + Len(t) - 1) = t

RECURSIVE expandEnvVarsFrom(_, _, _)
\* template.replace(/\$([A-Za-z_][A-ZaZ0-9_]*)/g, ...) from index i on
expandEnvVarsFrom(s, i, env) ==
    IF i > Len(s) THEN [threw |-> FALSE, text |-> <<>>]
    ELSE IF s[i] = "$" /\ i < Len(s) /\ s[i + 1] \in NameStart
    THEN LET j == RunEnd(s, i + 2, NameRest)
             value == Lookup(env, SubSeq(s, i + 1, j - 1))
             rest == expandEnvVarsFrom(s, j, env)
         IN  IF value = Missing \/ value = Str(<<>>)      \* if (!value) throw
             THEN [threw |-> TRUE, text |-> <<>>]
             ELSE [threw |-> rest.threw, text |-> value.chars \o rest.text]
    ELSE LET rest == expandEnvVarsFrom(s, i + 1, env)
         IN  [threw |-> rest.threw, text |-> <<s[i]>> \o rest.text]

expandEnvVars(s, env) == expandEnvVarsFrom(s, 1, env)

RECURSIVE replacePlaceholdersFrom(_, _, _)
\* .replace(/\{\{([A-Za-z_][A-ZaZ0-9_]*)\}\}/g, ...) from index i on
replacePlaceholdersFrom(s, i, values) ==
    IF i > Len(s) THEN <<>>
    ELSE LET j == RunEnd(s, i + 3, NameRest)
         IN  IF /\ StartsAt(s, i, <<"{", "{">>)
                /\ i + 2 <= Len(s) /\ s[i + 2] \in NameStart
                /\ StartsAt(s, j, <<"}", "}">>)
             THEN LET value == Lookup(values, SubSeq(s, i + 2, j - 1))
                  IN  (IF value # Missing THEN stringOf(value) ELSE <<>>)
                          \o replacePlaceholdersFrom(s, j + 2, values)
             ELSE <<s[i]>> \o replacePlaceholdersFrom(s, i + 1, values)

MaxTemplateLen == 5     \* longest of the templates made of braces and names

\* templates of the test file, and other templates with names the two
\* regular expressions accept
TestTemplates ==
    {<<"H", "e", "l", "l", "o", ",", " ", "{", "{", "n", "a", "m", "e", "}", "}", "!">>,
     <<"{", "{", "a", "}", "}", "{", "{", "b", "}", "}", "{", "{", "c", "}", "}">>,
     <<"b", "a", "d", ":", " ", "{", "{", "1", "a", "}", "}">>,
     <<"o", "k", ":", " ", "{", "{", "_", "v", "a", "r", "1", "}", "}">>,
     <<"h", "e", "l", "l", "o", " ", "{", "{", " ", "n", "a", "m", "e", " ", "}", "}">>,
     <<"{", "{", "a", "r", "r", ".", "0", "}", "}">>,
     <<"{", "{", "a", ".", "b", ".", "c", "}", "}">>,
     <<"d", "a", "s", "h", ":", " ", "{", "{", "a", "-", "b", "}", "}">>,
     <<"{", "{", "x", "}", "}", " ", "a", "n", "d", " ", "{", "{", "x", "}", "}">>,
     <<"H", "e", "l", "l", "o", " ", "{", "{", "n", "a", "m", "e">>,
     <<"H", "e", "l", "l", "o", " ", "n", "a", "m", "e", "}", "}">>,
     <<"{", "{", "{", "n", "a", "m", "e", "}", "}", "}">>,
     <<"{", "{", "n", "a", "m", "e", "}", "}", "}">>,
     <<"h", "e", "l", "l", "o", " ", "{", "{", "n", "a", "m", "e", ".", "f", "i", "r",
      "s", "t", "}", "}">>,
     <<>>,
     <<"v", "a", "l", "u", "e", ":", " ", "'", "{", "{", "a", "}", "}", "'">>,
     <<"{", "{", "g", "r", "e", "e", "t", "i", "n", "g", "}", "}", ",", " ", "$", "T",
      "E", "S", "T", "_", "N", "A", "M", "E", "!">>,
     <<"V", "a", "l", "u", "e", ":", " ", "$", "M", "I", "S", "S", "I", "N", "G">>,
     <<"V", "a", "l", "u", "e", ":", " ", "{", "{", "m", "i", "s", "s", "i", "n", "g",
      "}", "}">>,
     <<"o", "b", "j", ":", " ", "{", "{", "o", "b", "j", "}", "}">>,
     <<"{", "{", "A", "}", "}", "{", "{", "A", "1", "}", "}", "{", "{", "_", "}", "}",
      "{", "{", "A", "a", "}", "}">>,
     <<"$", "n", "a", "m", "e">>}

FlatVars ==
    << <<<<"n", "a", "m", "e">>, Str(<<"W", "o", "r", "l", "d">>)>>, <<<<"g", "r", "e",
     "e", "t", "i", "n", "g">>, Str(<<"H", "i">>)>>, <<<<"a">>, Str(<<"1">>)>>,
     <<<<"b">>, Str(<<"2">>)>>, <<<<"c">>, Str(<<"3">>)>>, <<<<"_", "v", "a", "r",
     "1">>, Str(<<"y", "e", "s">>)>>, <<<<"x">>, Str(<<"Y">>)>>, <<<<"1", "a">>,
     Str(<<"n", "o">>)>>, <<<<"a", "-", "b">>, Str(<<"x">>)>>, <<<<"A">>,
     Str(<<"U">>)>>, <<<<"A", "1">>, Str(<<"V">>)>>, <<<<"_">>, Str(<<"W">>)>>,
     <<<<"A", "a">>, Str(<<"T">>)>> >>

NestedVars ==
    << <<<<"n", "a", "m", "e">>, Obj(<< <<<<"f", "i", "r", "s", "t">>, Str(<<"B", "o",
     "b">>)>>, <<<<"l", "a", "s", "t">>, Str(<<"E", "n", "g", "i", "n", "e", "e",
     "r">>)>> >>)>>, <<<<"a", "r", "r">>, Obj(<< <<<<"0">>, Str(<<"a">>)>>, <<<<"1">>,
     Str(<<"b">>)>> >>)>>, <<<<"a">>, Obj(<< <<<<"b">>, Obj(<< >>)>> >>)>>, <<<<"o",
     "b", "j">>, Obj(<< <<<<"a">>, Str(<<"1">>)>> >>)>>, <<<<"x">>, Str(<<>>)>> >>

Environment ==
    << <<<<"T", "E", "S", "T", "_", "N", "A", "M", "E">>, Str(<<"B", "o", "b">>)>>,
     <<<<"E", "M", "P", "T", "Y">>, Str(<<>>)>>, <<<<"n", "a">>, Str(<<"N">>)>> >>

RECURSIVE StringsUpTo(_, _)
StringsUpTo(alphabet, n) ==
    IF n = 0 THEN {<<>>}
    ELSE LET shorter == StringsUpTo(alphabet, n - 1)
         IN  shorter \cup {Append(t, ch) : t \in shorter, ch \in alphabet}

Templates == TestTemplates \cup StringsUpTo({"{", "}", "a", "x", "A"}, MaxTemplateLen)

TplInit ==
    /\ \E template \in Templates, values \in {FlatVars, NestedVars, << >>} :
        tpl = [pc |-> "expandEnvVars", template |-> template, vars |-> values,
               text |-> <<>>, result |-> <<>>, threw |-> FALSE]
    /\ rd = Idle /\ conv = Idle /\ bl = Idle /\ crc = Idle /\ enc = Idle
    /\ cli = Idle /\ rng = Idle /\ sse = Idle /\ st = Idle /\ thr = Idle

\* expandEnvVars(template): the expanded text, or the throw for a variable
\* that is not set
TplExpandEnvVars ==
    /\ tpl.pc = "expandEnvVars"
    /\ LET r == expandEnvVars(tpl.template, Environment)
       IN  tpl' = IF r.threw THEN [tpl EXCEPT !.pc = "thrown", !.threw = TRUE]
                  ELSE [tpl EXCEPT !.pc = "replace", !.text = r.text]
    /\ UNCHANGED <<rd, conv, bl, crc, enc, cli, rng, sse, st, thr>>

\* .replace(...) on the expanded text, and the return
TplReplace ==
    /\ tpl.pc = "replace"
    /\ tpl' = [tpl EXCEPT !.pc = "done",
                          !.result = replacePlaceholdersFrom(tpl.text, 1, tpl.vars)]
    /\ UNCHANGED <<rd, conv, bl, crc, enc, cli, rng, sse, st, thr>>

TplNext == TplExpandEnvVars \/ TplReplace

SpecTpl == TplInit /\ [][TplNext]_vars


\* [A-Za-z0-9_]
NameChars == Upper \cup Lower \cup Digit \cup {"_"}

\* a letter or underscore followed by letters, digits and underscores
IsIdentifier(seg) ==
    /\ Len(seg) > 0
    /\ seg[1] \in NameStart
    /\ \A k \in 1..Len(seg) : seg[k] \in NameChars

IsIndex(seg) == Len(seg) > 0 /\ \A k \in 1..Len(seg) : seg[k] \in Digit

RECURSIVE PathSegments(_, _, _)
\* the parts of path[i..] between the dots, cur being the one begun
PathSegments(path, i, cur) ==
    IF i > Len(path) THEN <<cur>>
    ELSE IF path[i] = "." THEN <<cur>> \o PathSegments(path, i + 1, <<>>)
    ELSE PathSegments(path, i + 1, Append(cur, path[i]))

\* name, name.first, arr.0, ...
IsPath(path) ==
    LET segs == PathSegments(path, 1, <<>>)
    IN  /\ IsIdentifier(segs[1])
        /\ \A k \in 2..Len(segs) : IsIdentifier(segs[k]) \/ IsIndex(segs[k])

RECURSIVE ValueAt(_, _, _)
\* the value that the segments from k on lead to, starting at value
ValueAt(value, segs, k) ==
    IF k > Len(segs) THEN value
    ELSE IF value.kind # "object" THEN Missing
    ELSE ValueAt(Lookup(value.fields, segs[k]), segs, k + 1)

RECURSIVE Substituted(_, _, _)
\* s[i..] with every well-formed placeholder replaced by its value, or by
\* nothing when there is no such value
Substituted(s, i, values) ==
    IF i > Len(s) THEN <<>>
    ELSE LET j == RunEnd(s, i + 2, NameChars \cup {"."})
             path == SubSeq(s, i + 2, j - 1)
         IN  IF /\ StartsAt(s, i, <<"{", "{">>)
                /\ IsPath(path)
                /\ StartsAt(s, j, <<"}", "}">>)
             THEN LET value == ValueAt(Obj(values), PathSegments(path, 1, <<>>), 1)
                  IN  (IF value = Missing THEN <<>> ELSE stringOf(value))
                          \o Substituted(s, j + 2, values)
             ELSE <<s[i]>> \o Substituted(s, i + 1, values)

\* C16: template replaces every placeholder {{name}} and every dotted path
\* {{name.first}}, {{arr.0}} by the value found in vars, or by the empty
\* string when there is none, repeated and adjacent placeholders included,
\* and leaves everything else as it is.
C16_TemplateReplacesPlaceholders ==
    tpl.pc = "done" => tpl.result = Substituted(tpl.text, 1, tpl.vars)

\* what the regular expression of template does replace: names made of one
\* letter or underscore followed by capitals, digits, underscores and a
TemplateReplacesShortNames ==
    (tpl.pc = "done"
        /\ tpl.template = <<"{", "{", "A", "}", "}", "{", "{", "A", "1", "}", "}", "{",
                            "{", "_", "}", "}", "{", "{", "A", "a", "}", "}">>
        /\ tpl.vars = FlatVars)
    => tpl.result = <<"U", "V", "W", "T">>


(***************************************************************************)
(* RNG.selectN and RNG.shuffle without a weight key.  rest and copy hold   *)
(* positions of arr (1-based) in place of the elements, so that a position *)
(* taken twice shows even when two elements are equal.  rangei(0, n) is    *)
(* floor(value() * n) with value() in [0, 1): any index 0..n-1.            *)
(***************************************************************************)
MaxArrayLen == 3    \* longest array handed to selectN
MaxSelect == 4      \* largest count handed to selectN

\* rest[index] = rest.pop()!  The target rest[index] is fixed before the pop
\* runs: when index is the last position, the popped element is stored
\* where it was and the array has its old length again.
popInto(rest, index) ==
    LET popped == rest[Len(rest)]
        shorter == SubSeq(rest, 1, Len(rest) - 1)
    IN  IF index + 1 <= Len(shorter) THEN [shorter EXCEPT ![index + 1] = popped]
        ELSE Append(shorter, popped)

RngInit ==
    /\ \E arr \in SeqsUpTo({"a", "b"}, MaxArrayLen), count \in 0..MaxSelect,
          method \in {"selectN", "shuffle"} :
        rng = [pc |-> "loop", method |-> method, arr |-> arr,
               requested |-> IF method = "shuffle" THEN Len(arr) ELSE count,
               count |-> IF method = "shuffle" THEN Len(arr) ELSE count,
               rest |-> [k \in 1..Len(arr) |-> k], copy |-> <<>>, result |-> <<>>]
    /\ rd = Idle /\ conv = Idle /\ bl = Idle /\ crc = Idle /\ enc = Idle
    /\ cli = Idle /\ tpl = Idle /\ sse = Idle /\ st = Idle /\ thr = Idle

\* one iteration of  while (rest.length > 0 && count > 0)
RngSelect ==
    /\ rng.pc = "loop"
    /\ Len(rng.rest) > 0 /\ rng.count > 0
    /\ \E index \in 0..(Len(rng.rest) - 1) :
        rng' = [rng EXCEPT !.rest = popInto(rng.rest, index),
                           !.copy = Append(@, rng.rest[index + 1]),
                           !.count = @ - 1]
    /\ UNCHANGED <<rd, conv, bl, crc, enc, cli, tpl, sse, st, thr>>

\* return copy
RngReturn ==
    /\ rng.pc = "loop"
    /\ ~(Len(rng.rest) > 0 /\ rng.count > 0)
    /\ rng' = [rng EXCEPT !.pc = "done",
                          !.result = [k \in 1..Len(rng.copy) |-> rng.arr[rng.copy[k]]]]
    /\ UNCHANGED <<rd, conv, bl, crc, enc, cli, tpl, sse, st, thr>>

RngNext == RngSelect \/ RngReturn

SpecRng == RngInit /\ [][RngNext]_vars

\* C17: selectN returns min(count, arr.length) elements taken from pairwise
\* distinct positions of arr, whatever the draws are; shuffle returns a
\* permutation of arr.
C17_SelectNUnique ==
    rng.pc = "done" =>
        /\ Len(rng.result) = Min(rng.requested, Len(rng.arr))
        /\ \A i \in 1..Len(rng.copy), j \in 1..Len(rng.copy) :
                i # j => rng.copy[i] # rng.copy[j]
        /\ rng.method = "shuffle" =>
                {rng.copy[k] : k \in 1..Len(rng.copy)} = 1..Len(rng.arr)

\* what does hold of selectN: it returns at most count elements, each an
\* element of arr
SelectNFromArray ==
    rng.pc = "done" =>
        /\ Len(rng.result) <= rng.requested
        /\ \A k \in 1..Len(rng.copy) : rng.copy[k] \in 1..Len(rng.arr)


(***************************************************************************)
(* The effect of useServerSideEvents.  source is the state of the current  *)
(* EventSource ("connecting", "open" or "closed"), timer says whether the  *)
(* setTimeout of reconnect is pending.  retries counts the connects made   *)
(* by the timer since the last onopen (it is not a variable of the code).  *)
(***************************************************************************)
GiveUpAfter == 10   \* failures >= 10
MaxFailures == 12   \* the model stops counting failures here
MaxMessages == 2    \* events delivered to cb that the model counts

\* the effect has run: failures = 0, connected = false, connect()
SseInit ==
    /\ sse = [source |-> "connecting", failures |-> 0, connected |-> FALSE,
              timer |-> FALSE, mounted |-> TRUE, retries |-> 0, delivered |-> 0,
              warned |-> 0, sources |-> 1]
    /\ rd = Idle /\ conv = Idle /\ bl = Idle /\ crc = Idle /\ enc = Idle
    /\ cli = Idle /\ tpl = Idle /\ rng = Idle /\ st = Idle /\ thr = Idle

\* eventSource.onopen
SseOpen ==
    /\ sse.source = "connecting"
    /\ sse' = [sse EXCEPT !.source = "open", !.failures = 0, !.connected = TRUE,
                          !.retries = 0]
    /\ UNCHANGED <<rd, conv, bl, crc, enc, cli, tpl, rng, st, thr>>

\* eventSource.onmessage: JSON goes to cb, anything else is warned about
SseMessage ==
    /\ sse.source = "open"
    /\ \/ /\ sse.delivered < MaxMessages
          /\ sse' = [sse EXCEPT !.delivered = @ + 1]
       \/ /\ sse.warned < MaxMessages
          /\ sse' = [sse EXCEPT !.warned = @ + 1]
    /\ UNCHANGED <<rd, conv, bl, crc, enc, cli, tpl, rng, st, thr>>

\* eventSource.onerror: close, then give up or reconnect (failures++ and
\* the timer is set)
SseError ==
    /\ sse.source \in {"connecting", "open"}
    /\ sse.failures < MaxFailures
    /\ sse' = IF ~sse.connected /\ sse.failures >= GiveUpAfter
              THEN [sse EXCEPT !.source = "closed", !.sources = @ - 1]
              ELSE [sse EXCEPT !.source = "closed", !.sources = @ - 1,
                               !.failures = @ + 1, !.timer = TRUE]
    /\ UNCHANGED <<rd, conv, bl, crc, enc, cli, tpl, rng, st, thr>>

\* the timer fires: connect()
SseTimeout ==
    /\ sse.timer
    /\ sse' = [sse EXCEPT !.timer = FALSE, !.source = "connecting",
                          !.retries = @ + 1, !.sources = @ + 1]
    /\ UNCHANGED <<rd, conv, bl, crc, enc, cli, tpl, rng, st, thr>>

\* the cleanup of the effect: eventSource?.close()
SseCleanup ==
    /\ sse.mounted
    /\ sse' = [sse EXCEPT !.mounted = FALSE, !.source = "closed",
                          !.sources = IF sse.source = "closed" THEN @ ELSE @ - 1]
    /\ UNCHANGED <<rd, conv, bl, crc, enc, cli, tpl, rng, st, thr>>

SseNext ==
    \/ SseOpen
    \/ SseMessage
    \/ SseError
    \/ SseTimeout
    \/ SseCleanup

SpecSse == SseInit /\ [][SseNext]_vars

\* C18: the hook gives up after too many failed retries: no more than ten
\* connects in a row are made by the timer without an onopen in between,
\* whether or not a connection had been open before.
C18_ReconnectsBounded == sse.retries <= GiveUpAfter

\* what does hold: the hook gives up as long as no connection was ever open
GivesUpBeforeFirstOpen == ~sse.connected => sse.retries <= GiveUpAfter


(***************************************************************************)
(* Further properties of the conversion.                                   *)
(***************************************************************************)
\* canvas pixel (sx, sy) lies under source pixel (sx - cel.x, sy - cel.y)
Footprint(cel, sx, sy) ==
    /\ sx - cel.x \in 0..(cel.width - 1)
    /\ sy - cel.y \in 0..(cel.height - 1)

\* the cel's layer exists and is visible
OnVisibleLayer(cel) ==
    /\ cel.layerIndex < Len(conv.layers)
    /\ conv.layers[cel.layerIndex + 1].visible

CanvasXs == 0..(conv.header.width - 1)

CanvasYs == 0..(conv.header.height - 1)

C21_State ==
    (conv.pc = "drawCels" \/ Composited) =>
        /\ Len(conv.image) = conv.header.width * conv.header.height * 4
        /\ conv.celNo = 1 => \A k \in 1..Len(conv.image) : conv.image[k] = 0
        /\ \A sx \in CanvasXs, sy \in CanvasYs :
            (\A k \in 1..(conv.celNo - 1) : ~Footprint(conv.cels[k], sx, sy)) =>
                CanvasPixel(conv.image, sx, sy) = <<0, 0, 0, 0>>

C21_Draw ==
    \A cel \in {conv.cels[k] : k \in 1..Len(conv.cels)} :
        DrawStep(cel) =>
            /\ conv'.pc = "drawCels"
            /\ conv'.thrown = ""
            /\ conv'.errors = conv.errors
            /\ Len(conv'.image) = Len(conv.image)
            /\ \A sx \in CanvasXs, sy \in CanvasYs :
                /\ ~Footprint(cel, sx, sy) => Kept(sx, sy)
                /\ (Footprint(cel, sx, sy) /\ HasSource(cel, sx, sy)
                        /\ OnVisibleLayer(cel)) =>
                    CanvasPixel(conv'.image, sx, sy) =
                        blendPixel(CelPixel(cel, sx, sy),
                                   CanvasPixel(conv.image, sx, sy),
                                   totalOpacity(conv.layers[cel.layerIndex + 1].opacity,
                                                cel.opacity))

\* C21: the canvas holds width * height * 4 bytes and starts all zero; drawing
\* a cel, whatever its offset and size, throws nothing, leaves every canvas
\* pixel that is not under one of the cel's source pixels as it was, and
\* blends source pixel (px, py) into canvas pixel (cel.x + px, cel.y + py)
\* when that lies on the canvas; a canvas pixel under no drawn cel is
\* (0, 0, 0, 0).
C21_OffCanvasPixelsDropped == []C21_State /\ [][C21_Draw]_vars

\* a 2 x 2 cel at (-1, -1) on a 2 x 2 canvas: only its last pixel is drawn
C21_Witness ==
    /\ Composited
    /\ conv.header.width = 2 /\ conv.header.height = 2
    /\ Len(conv.cels) = 1
    /\ conv.cels[1].x = -1 /\ conv.cels[1].y = -1
    /\ conv.cels[1].width = 2 /\ conv.cels[1].height = 2
    /\ CelPixel(conv.cels[1], 0, 0) = <<200, 100, 50, 255>>
    /\ conv.image = <<200, 100, 50, 255>> \o Zeros(12)


\* the flags word and the opacity byte of a LAYER chunk of the document
LayerFlags(chunk) == chunk.payload[1] + 256 * chunk.payload[2]

LayerOpacity(chunk) == chunk.payload[13]

\* the cel's layer index names a LAYER chunk of the requested frame whose
\* flags have bit 0 set
DocLayerVisible(cel) ==
    /\ cel.layerIndex < Len(DocLayers)
    /\ LayerFlags(DocLayers[cel.layerIndex + 1]) % 2 = 1

C22_State ==
    (Intact /\ (conv.pc = "drawCels" \/ Composited)) =>
        /\ Len(conv.layers) = Len(DocLayers)
        /\ \A k \in 1..Len(DocLayers) :
            /\ conv.layers[k].visible = (LayerFlags(DocLayers[k]) % 2 = 1)
            /\ conv.layers[k].opacity = LayerOpacity(DocLayers[k])

C22_Draw ==
    \A cel \in {conv.cels[k] : k \in 1..Len(conv.cels)} :
        (Intact /\ DrawStep(cel)) =>
            IF DocLayerVisible(cel)
            THEN \A sx \in CanvasXs, sy \in CanvasYs :
                    HasSource(cel, sx, sy) =>
                        CanvasPixel(conv'.image, sx, sy) =
                            blendPixel(CelPixel(cel, sx, sy),
                                       CanvasPixel(conv.image, sx, sy),
                                       totalOpacity(
                                           LayerOpacity(DocLayers[cel.layerIndex + 1]),
                                           cel.opacity))
            ELSE /\ conv'.image = conv.image
                 /\ conv'.pc = "drawCels"
                 /\ conv'.thrown = ""

\* C22: the layers used for compositing are the LAYER chunks of the requested
\* frame in the order they lie in that frame; a cel is drawn with the
\* layerIndex-th of them, whether that chunk lies before or after the cel
\* chunk, and a cel whose layerIndex names no layer chunk of that frame, or
\* one whose flags have bit 0 clear, leaves the whole canvas as it was.
C22_LayerByPosition == []C22_State /\ [][C22_Draw]_vars

\* the cel chunk comes first and names the second layer chunk (opacity 128)
C22_Witness ==
    /\ Composited
    /\ conv.doc.frames[1].chunks[1].type = CEL
    /\ Len(conv.cels) = 1
    /\ conv.cels[1].layerIndex = 1
    /\ LayerFlags(DocLayers[1]) = 2
    /\ LayerFlags(DocLayers[2]) = 3
    /\ conv.image = <<255, 0, 128, 128>>

\* the requested frame holds a cel and no layer chunk: nothing is drawn
C22_WitnessNoLayer ==
    /\ Composited
    /\ conv.frameIndex = 1
    /\ Len(conv.cels) = 1
    /\ DocLayers = << >>
    /\ conv.image = <<0, 0, 0, 0>>



(***************************************************************************)
(* inflate and deflateSync as they drive their stream.  The stream is a    *)
(* transform stream: a write is transformed only while the readable side   *)
(* asks for data (a read is pending or its queue is below its high-water   *)
(* mark, capacity), close flushes what is left and closes the readable     *)
(* side.  The platform cuts the output into chunks of chunkSize bytes and  *)
(* gives any number of them at the write, the rest at the flush.  The      *)
(* function runs up to its first await without interruption; the tasks     *)
(* wpc (write, then close) and rpc (the read loop) go on from there.       *)
(***************************************************************************)
MaxCapacity == 2    \* largest high-water mark of the readable side, in chunks
MaxStreamLen == 2   \* longest payload that is compressed

ChunkSizes == {3, 8}

\* the output cut into chunks of size bytes, the last one shorter
Chunked(output, size) ==
    [k \in 1..((Len(output) + size - 1) \div size) |->
        SubSeq(output, (k - 1) * size + 1, Min(k * size, Len(output)))]

Prefixes(data) == {SubSeq(data, 1, n) : n \in 0..Len(data)}

StreamPayloads == SeqsUpTo({0, 120}, MaxStreamLen)

\* zlib streams, raw streams, streams cut short and bytes that are no stream
InflateArguments ==
    {Deflate(x) : x \in StreamPayloads} \cup {DeflateRaw(x) : x \in StreamPayloads}
        \cup Prefixes(Deflate(<<7>>)) \cup {<<7, 7, 7>>, <<120, 156>>}

\* what the stream makes of the bytes written to it
StreamOutput(fn, written) ==
    IF fn = "inflate" THEN InflateRaw(written)
    ELSE [ok |-> TRUE, data |-> Deflate(written)]

StInit ==
    /\ \E fn \in {"inflate", "deflateSync"}, capacity \in 0..MaxCapacity,
          chunkSize \in ChunkSizes :
        \E data \in (IF fn = "inflate" THEN InflateArguments ELSE StreamPayloads) :
            st = [pc |-> "call", fn |-> fn, data |-> data, capacity |-> capacity,
                  chunkSize |-> chunkSize, written |-> <<>>, wpc |-> "idle",
                  rpc |-> "idle", queue |-> <<>>, emitted |-> 0, closed |-> FALSE,
                  errored |-> FALSE, chunks |-> <<>>, result |-> <<>>]
    /\ rd = Idle /\ conv = Idle /\ bl = Idle /\ crc = Idle /\ enc = Idle
    /\ cli = Idle /\ tpl = Idle /\ rng = Idle /\ sse = Idle /\ thr = Idle

\* the stream is made and the write task runs up to  await writer.write(...)
StStartWriter ==
    /\ st.pc = "call"
    /\ st' = [st EXCEPT !.pc = "reader", !.wpc = "write",
                        !.written = IF st.fn = "inflate" THEN deflateData(st.data)
                                    ELSE st.data]
    /\ UNCHANGED <<rd, conv, bl, crc, enc, cli, tpl, rng, sse, thr>>

\* the read task is started only when the write task has finished
StStartReaderAfterWrite ==
    /\ st.pc = "reader"
    /\ st.wpc = "done"
    /\ st' = [st EXCEPT !.pc = "await", !.rpc = "read"]
    /\ UNCHANGED <<rd, conv, bl, crc, enc, cli, tpl, rng, sse, thr>>

\* the read task runs up to its first  await reader.read(), and the function
\* goes on to  await Promise.all([writePromise, readPromise])
StStartReader ==
    /\ st.pc = "reader"
    /\ st' = [st EXCEPT !.pc = "await", !.rpc = "read"]
    /\ UNCHANGED <<rd, conv, bl, crc, enc, cli, tpl, rng, sse, thr>>

\* the stream transforms the chunk written: writer.write(...) is settled
StTransform ==
    /\ st.wpc = "write"
    /\ st.rpc = "read" \/ Len(st.queue) < st.capacity
    /\ LET out == StreamOutput(st.fn, st.written)
           all == Chunked(out.data, st.chunkSize)
       IN  \/ /\ out.ok
              /\ \E k \in 0..Len(all) :
                    st' = [st EXCEPT !.wpc = "close", !.emitted = k,
                                     !.queue = SubSeq(all, 1, k)]
           \/ /\ ~out.ok
              /\ \/ st' = [st EXCEPT !.wpc = "failed", !.errored = TRUE]
                 \/ st' = [st EXCEPT !.wpc = "close"]
    /\ UNCHANGED <<rd, conv, bl, crc, enc, cli, tpl, rng, sse, thr>>

\* the stream flushes and closes: writer.close() is settled
StFlush ==
    /\ st.wpc = "close"
    /\ LET out == StreamOutput(st.fn, st.written)
           all == Chunked(out.data, st.chunkSize)
       IN  st' = IF out.ok
                 THEN [st EXCEPT !.wpc = "done", !.closed = TRUE,
                                 !.emitted = Len(all),
                                 !.queue = @ \o SubSeq(all, st.emitted + 1, Len(all))]
                 ELSE [st EXCEPT !.wpc = "failed", !.errored = TRUE, !.queue = <<>>]
    /\ UNCHANGED <<rd, conv, bl, crc, enc, cli, tpl, rng, sse, thr>>

\* reader.read() gives a chunk: chunks.push(value)
StRead ==
    /\ st.rpc = "read"
    /\ ~st.errored
    /\ st.queue # <<>>
    /\ st' = [st EXCEPT !.chunks = Append(@, Head(st.queue)), !.queue = Tail(@)]
    /\ UNCHANGED <<rd, conv, bl, crc, enc, cli, tpl, rng, sse, thr>>

\* reader.read() gives done: break
StReadDone ==
    /\ st.rpc = "read"
    /\ ~st.errored
    /\ st.queue = <<>>
    /\ st.closed
    /\ st' = [st EXCEPT !.rpc = "done"]
    /\ UNCHANGED <<rd, conv, bl, crc, enc, cli, tpl, rng, sse, thr>>

\* reader.read() rejects: the stream has errored
StReadFail ==
    /\ st.rpc = "read"
    /\ st.errored
    /\ st' = [st EXCEPT !.rpc = "failed"]
    /\ UNCHANGED <<rd, conv, bl, crc, enc, cli, tpl, rng, sse, thr>>

\* Promise.all is fulfilled: the chunks are copied into result
StReturn ==
    /\ st.pc = "await"
    /\ st.wpc = "done"
    /\ st.rpc = "done"
    /\ st' = [st EXCEPT !.pc = "returned",
                        !.result = Concat(st.chunks, 1, Len(st.chunks))]
    /\ UNCHANGED <<rd, conv, bl, crc, enc, cli, tpl, rng, sse, thr>>

\* Promise.all is rejected
StThrow ==
    /\ st.pc = "await"
    /\ st.wpc = "failed" \/ st.rpc = "failed"
    /\ st' = [st EXCEPT !.pc = "threw"]
    /\ UNCHANGED <<rd, conv, bl, crc, enc, cli, tpl, rng, sse, thr>>

StNext ==
    \/ StStartWriter
    \/ StStartReader
    \/ StTransform
    \/ StFlush
    \/ StRead
    \/ StReadDone
    \/ StReadFail
    \/ StReturn
    \/ StThrow

SpecStream == StInit /\ [][StNext]_vars

\* the event loop runs a task that can run
SpecStreamFair == StInit /\ [][StNext]_vars /\ WF_vars(StNext)

\* C23: inflate hands to the raw inflater the bytes data[2 .. length - 4) when
\* data is longer than 2 bytes and starts with 0x78 (none when it is shorter
\* than 7 bytes), and data itself otherwise.
C23_ZlibWrapperStripped ==
    (st.pc # "idle" /\ st.fn = "inflate" /\ st.pc # "call") =>
        st.written = IF Len(st.data) > 2 /\ st.data[1] = 120
                     THEN SubSeq(st.data, 3, Len(st.data) - 4)
                     ELSE st.data

\* a zlib stream of two bytes is inflated from its raw part
C23_Witness ==
    /\ st.pc = "returned" /\ st.fn = "inflate"
    /\ st.data = <<120, 1, 1, 2, 0, 253, 255, 120, 0, 0, 242, 0, 121>>
    /\ st.written = <<1, 2, 0, 253, 255, 120, 0>>
    /\ st.result = <<120, 0>>

\* five bytes that start with 0x78: nothing is left for the inflater
C23_WitnessShort ==
    /\ st.pc = "threw" /\ st.fn = "inflate"
    /\ st.data = <<120, 1, 1, 1, 0>>
    /\ st.written = <<>>


\* the function has been called and its promise is not settled
StPending == st.pc \in {"call", "reader", "await"}

C26_Safe ==
    /\ StPending => ENABLED StNext
    /\ st.pc = "returned" =>
        /\ st.wpc = "done"
        /\ st.rpc = "done"
        /\ st.queue = <<>>
        /\ st.chunks = Chunked(StreamOutput(st.fn, st.written).data, st.chunkSize)
        /\ st.result = Concat(st.chunks, 1, Len(st.chunks))
        /\ st.result = StreamOutput(st.fn, st.written).data
    /\ st.pc = "threw" =>
        /\ st.fn = "inflate"
        /\ ~InflateRaw(st.written).ok

\* the call is settled and so are its two tasks
C26_Settled ==
    /\ st.pc \in {"returned", "threw"}
    /\ st.wpc \in {"done", "failed"}
    /\ st.rpc \in {"done", "failed"}

\* C26: deflateSync and inflate never wait for each other's task: whatever
\* the input, the high-water mark of the readable side and the chunking, a
\* call that is not settled can always take a step and is settled in the end
\* (deflateSync is always fulfilled; inflate is rejected only when the bytes
\* are no DEFLATE stream); a fulfilled call has finished both the write task
\* and the read loop, and its result is the chunks the stream gave, joined in
\* the order they were read.
C26_NoBackpressureDeadlock == []C26_Safe /\ <>C26_Settled

\* a readable side that holds nothing (high-water mark 0) and three chunks,
\* all given at the flush
C26_Witness ==
    /\ st.pc = "returned" /\ st.fn = "deflateSync"
    /\ st.capacity = 0
    /\ st.chunkSize = 3
    /\ Len(st.chunks) = 4
    /\ st.data = <<120>>
    /\ st.result = Deflate(<<120>>)



(***************************************************************************)
(* Further properties of AsepriteReader.                                   *)
(***************************************************************************)
\* the byte at offset o of the harness buffer as | and << take it: 0 past
\* the end
ByteAt(o) == IF o >= 0 /\ o < Len(rd.data) THEN rd.data[o + 1] ELSE 0

\* the unsigned little-endian word at offset o
WordAt(o) == ByteAt(o) + 256 * ByteAt(o + 1)

\* the bytes the read of the last step has to advance by
Advance ==
    CASE rd.op = "readByte" -> 1
      [] rd.op \in {"readWord", "readShort"} -> 2
      [] rd.op \in {"readDword", "readLong", "readFixed"} -> 4
      [] rd.op \in {"readBytes", "skip"} -> rd.width
      [] rd.op = "readString" -> 2 + WordAt(rd.before)

\* C24: every read leaves the cursor exactly its width past where it
\* started (readByte 1, readWord and readShort 2, readDword, readLong and
\* readFixed 4, readBytes(n) and skip(n) n, readString 2 plus its length
\* prefix), and readShort and readLong return the little-endian bytes read
\* as a two's-complement number.
C24_CursorAdvancesByWidth ==
    (rd.pc = "reading" /\ rd.op # "new") =>
        /\ rd.offset = rd.before + Advance
        /\ rd.op = "readShort" =>
            rd.value = IF ByteAt(rd.before + 1) >= 128
                       THEN WordAt(rd.before) - 65536
                       ELSE WordAt(rd.before)
        /\ rd.op = "readLong" =>
            rd.value = WordAt(rd.before) + 65536 * ByteAt(rd.before + 2)
                        + 16777216 * (IF ByteAt(rd.before + 3) >= 128
                                      THEN ByteAt(rd.before + 3) - 256
                                      ELSE ByteAt(rd.before + 3))

\* readShort gave -32768 and readLong then gave -2147483647 - 1
C24_Witness ==
    /\ rd.pc = "reading"
    /\ rd.data = <<0, 0, 0, 128>>
    /\ rd.op = "readLong"
    /\ rd.before = 0
    /\ rd.offset = 4
    /\ rd.value = 0 - 2147483647 - 1

\* readString over a prefix of 2 and two characters
C24_WitnessString ==
    /\ rd.pc = "reading"
    /\ rd.data = <<2, 0, 72, 105, 0, 128>>
    /\ rd.op = "readString"
    /\ rd.before = 0
    /\ rd.offset = 4
    /\ rd.value = <<72, 105>>

\* readShort of 0x8000 after the string
C24_WitnessShort ==
    /\ rd.pc = "reading"
    /\ rd.data = <<2, 0, 72, 105, 0, 128>>
    /\ rd.op = "readShort"
    /\ rd.before = 4
    /\ rd.offset = 6
    /\ rd.value = 0 - 32768



(***************************************************************************)
(* Further properties of the parser.                                       *)
(***************************************************************************)
\* the file's byte at offset o as | and << take it: 0 past the end
FileByte(o) ==
    IF o >= 0 /\ o < Len(conv.fileData) THEN conv.fileData[o + 1] ELSE 0

FileWord(o) == FileByte(o) + 256 * FileByte(o + 1)

FileDword(o) == FileWord(o) + 65536 * FileWord(o + 2)

\* the chunk count of the frame header at offset o
ChunkCount(o) == IF FileDword(o + 12) = 0 THEN FileWord(o + 6) ELSE FileDword(o + 12)

RECURSIVE ChunkOffset(_, _)
\* where chunk k (from 1) of the frame at offset o starts, each chunk lying
\* its size field after the one before
ChunkOffset(o, k) ==
    IF k = 1 THEN o + 16
    ELSE ChunkOffset(o, k - 1) + FileDword(ChunkOffset(o, k - 1))

\* the bytes of the file from offset from up to offset to, as far as it has
\* them
FileBytesBetween(from, to) ==
    IF to <= from THEN << >>
    ELSE SubSeq(conv.fileData, from + 1, Min(to, Len(conv.fileData)))

C25_Step ==
    (conv.pc = "frames" /\ conv'.pc \in {"frames", "chunks"} /\ conv' # conv) =>
        LET o == conv.offset
            n == ChunkCount(o)
        IN  /\ conv'.offset = ChunkOffset(o, n + 1)
            /\ conv'.pc = "chunks" =>
                /\ Len(conv'.chunks) = n
                /\ \A k \in 1..n :
                    LET at == ChunkOffset(o, k)
                        chunk == conv'.chunks[k]
                    IN  /\ chunk.size = FileDword(at)
                        /\ chunk.type = FileWord(at + 4)
                        /\ chunk.data = FileBytesBetween(at + 6, at + chunk.size)
                        /\ at + chunk.size <= Len(conv.fileData) =>
                                Len(chunk.data) = Max(chunk.size - 6, 0)

\* C25: parseFrame reads as many chunks as the 32-bit count says, or as the
\* 16-bit count says when the 32-bit count is 0; chunk k is the size, the
\* type and the size - 6 payload bytes that lie where chunk k - 1 ended, and
\* the cursor is left one size past the start of the last chunk.
C25_ChunkCountAndCursor == [][C25_Step]_vars

\* three chunks counted by the 32-bit field while the 16-bit field is 0xFFFF
C25_Witness ==
    /\ conv.pc = "chunks"
    /\ conv.chunkNo = 1
    /\ conv.doc.frames[1].newCount
    /\ Len(conv.doc.frames) = 2
    /\ Len(conv.chunks) = 3
    /\ conv.chunks[2].type = PALETTE
    /\ conv.chunks[2].size = 9
    /\ conv.chunks[2].data = <<1, 2, 3>>
    /\ conv.offset = 128 + 16 + 25 + 9 + 30

\* the 16-bit count of a file that ends inside its first chunk
C25_WitnessLegacy ==
    /\ conv.pc = "chunks"
    /\ conv.chunkNo = 1
    /\ ~conv.doc.frames[1].newCount
    /\ Len(conv.fileData) = 128 + 16 + 8
    /\ Len(conv.chunks) = 2
    /\ conv.chunks[1].size = 25
    /\ conv.chunks[1].data = <<1, 0>>
    /\ conv.chunks[2].size = 0



(***************************************************************************)
(* useThrottledCallback: the function it returns, the clock (Date.now) and *)
(* the timers of setTimeout.  state.timeout is 0 for null and a timer id   *)
(* otherwise; timers holds the timers that are set and have not fired.     *)
(* invoked lists the argument lists callback was called with; deferred     *)
(* lists the argument lists that were pending when a timer fired.          *)
(***************************************************************************)
MaxDelay == 3       \* largest delay given to the hook
MaxElapsed == 5     \* ms the clock runs on after the hook is mounted
MaxCalls == 3       \* calls of the throttled function
Epoch == 1000       \* Date.now() when the hook is mounted

Null == <<"null">>

\* the argument lists of the calls
ArgLists == {<<"a">>, <<"b">>, << >>}

\* callback(...args): spreading null is a TypeError
spreadCall(invoked, args) ==
    IF args = Null THEN [threw |-> TRUE, invoked |-> invoked]
    ELSE [threw |-> FALSE, invoked |-> Append(invoked, args)]

ThrInit ==
    /\ \E delay \in 1..MaxDelay :
        thr = [pc |-> "mounted", delay |-> delay, now |-> Epoch, prevCall |-> 0,
               timeout |-> 0, pendingArgs |-> Null, timers |-> {}, nextId |-> 1,
               calls |-> 0, invoked |-> << >>, deferred |-> << >>,
               delivered |-> << >>, thrown |-> 0]
    /\ rd = Idle /\ conv = Idle /\ bl = Idle /\ crc = Idle /\ enc = Idle
    /\ cli = Idle /\ tpl = Idle /\ rng = Idle /\ sse = Idle /\ st = Idle

\* the throttled function is called with args
ThrCall ==
    /\ thr.pc = "mounted"
    /\ thr.calls < MaxCalls
    /\ \E args \in ArgLists :
        LET timeDelta == thr.now - thr.prevCall
            cleared == {t \in thr.timers : t.id # thr.timeout}
        IN  thr' = IF timeDelta >= thr.delay
                   THEN [thr EXCEPT !.calls = @ + 1, !.timers = cleared,
                                    !.prevCall = thr.now, !.pendingArgs = Null,
                                    !.invoked = spreadCall(@, args).invoked]
                   ELSE [thr EXCEPT !.calls = @ + 1, !.pendingArgs = args,
                                    !.timeout = thr.nextId, !.nextId = @ + 1,
                                    !.timers = cleared \cup
                                        {[id |-> thr.nextId,
                                          at |-> thr.now + (thr.delay - timeDelta)]}]
    /\ UNCHANGED <<rd, conv, bl, crc, enc, cli, tpl, rng, sse, st>>

\* a millisecond passes with no timer due
ThrTick ==
    /\ thr.pc = "mounted"
    /\ thr.now < Epoch + MaxElapsed
    /\ \A t \in thr.timers : t.at > thr.now
    /\ thr' = [thr EXCEPT !.now = @ + 1]
    /\ UNCHANGED <<rd, conv, bl, crc, enc, cli, tpl, rng, sse, st>>

\* a timer fires: prevCall = Date.now(); pendingArgs = null;
\* callback(...state.pendingArgs)
ThrTimer ==
    /\ thr.pc = "mounted"
    /\ \E t \in thr.timers :
        /\ t.at <= thr.now
        /\ LET pendingArgs == Null
               call == spreadCall(thr.invoked, pendingArgs)
           IN  thr' = [thr EXCEPT !.timers = @ \ {t}, !.prevCall = thr.now,
                                  !.pendingArgs = pendingArgs,
                                  !.deferred = Append(@, thr.pendingArgs),
                                  !.invoked = call.invoked,
                                  !.delivered = IF call.threw THEN @
                                                ELSE Append(@, pendingArgs),
                                  !.thrown = IF call.threw THEN @ + 1 ELSE @]
    /\ UNCHANGED <<rd, conv, bl, crc, enc, cli, tpl, rng, sse, st>>

ThrNext ==
    \/ ThrCall
    \/ ThrTick
    \/ ThrTimer

SpecThr == ThrInit /\ [][ThrNext]_vars

\* C27: a call made less than delay ms after the previous invocation is not
\* lost: when its timer fires, callback is invoked with the arguments of
\* that call (the argument lists delivered by timers are the ones that were
\* pending), and at most one timer is pending at any time.
C27_DeferredCallDelivered ==
    /\ thr.delivered = thr.deferred
    /\ thr.thrown = 0
    /\ Cardinality(thr.timers) <= 1

\* what does hold: at most one timer is pending, a call made delay ms or more
\* after the previous invocation is invoked at once, and no timer ever
\* invokes callback
ThrottleImmediateOnly ==
    /\ Cardinality(thr.timers) <= 1
    /\ thr.delivered = << >>
    /\ thr.thrown = Len(thr.deferred)
    /\ Len(thr.invoked) + Len(thr.deferred) <= thr.calls

(***************************************************************************)
(* A frame index that matches no frame.                                    *)
(***************************************************************************)
\* no frame of the document has the requested index: the index is past the
\* last frame, negative, or not a number
NoSuchFrame == conv.frameIndex \notin 0..(Len(conv.doc.frames) - 1)

\* the canvas of the header with every byte 0
TransparentCanvas == Zeros(conv.doc.width * conv.doc.height * 4)

C28_State ==
    (NoSuchFrame /\ ~FatalDefect) =>
        /\ conv.pc # "chunks"
        /\ conv.layers = <<>> /\ conv.cels = <<>>
        /\ conv.warnings = <<>>
        /\ NoIOFailure => conv.thrown = "" /\ conv.errors = <<>>
        /\ conv.pc = "frames" => conv.offset = FrameEnd(conv.i)
        /\ conv.pc \in Compositing \cup Encoding \cup Writing =>
                /\ conv.i = Len(conv.doc.frames)
                /\ conv.offset = FrameEnd(Len(conv.doc.frames))
        /\ conv.pc \in {"drawCels", "encodePNG", "writeFile"} =>
                conv.image = TransparentCanvas
        /\ conv.pc = "writeFile" =>
                conv.pngData = encodePNG(conv.doc.width, conv.doc.height, TransparentCanvas)
        /\ (conv.pc = "exit" /\ NoIOFailure) =>
                /\ conv.exitCode = 0
                /\ conv.output.written
                /\ conv.output.data =
                       encodePNG(conv.doc.width, conv.doc.height, TransparentCanvas)

C28_Step ==
    (NoSuchFrame /\ ~FatalDefect /\ conv.pc = "frames" /\ conv.i < Len(conv.doc.frames)) =>
        /\ conv'.pc = "frames"
        /\ conv'.i = conv.i + 1
        /\ conv'.offset = FrameEnd(conv'.i)

\* C28: a frame index that matches no frame (past the last frame, negative, not
\* a number) is no error.  On a sound document the frame loop reads every
\* frame to its end, no layer and no cel is decoded, nothing is thrown, warned
\* or reported, and the run exits with code 0 having written the PNG of a
\* canvas of the header's size whose bytes are all 0.
C28_NoMatchingFrameTransparent == []C28_State /\ [][C28_Step]_vars

\* --frame without a digit on three frames of a 2x2 canvas
C28_Witness ==
    /\ conv.frameIndex = NaNIndex
    /\ Len(conv.doc.frames) = 3 /\ ~FatalDefect
    /\ conv.doc.width = 2 /\ conv.doc.height = 2
    /\ conv.pc = "exit" /\ conv.exitCode = 0
    /\ conv.i = 3 /\ conv.cels = <<>> /\ conv.layers = <<>>
    /\ conv.output.written
    /\ conv.image = Zeros(16)

\* frame -1 of two frames
C28_WitnessNegative ==
    /\ conv.frameIndex = 0 - 1
    /\ Len(conv.doc.frames) = 2 /\ ~FatalDefect
    /\ conv.pc = "exit" /\ conv.exitCode = 0
    /\ conv.i = 2 /\ conv.output.written
    /\ conv.image = TransparentCanvas

\* frame 3 of three frames: the index equals the frame count
C28_WitnessPastEnd ==
    /\ conv.frameIndex = 3
    /\ Len(conv.doc.frames) = 3 /\ ~FatalDefect
    /\ conv.pc = "exit" /\ conv.exitCode = 0
    /\ conv.i = 3 /\ conv.output.written
    /\ conv.image = TransparentCanvas

\* the last of three frames has a wrong magic number and no frame matches:
\* the loop reached it and threw
C28_WitnessValidated ==
    /\ conv.frameIndex = NaNIndex
    /\ Len(conv.doc.frames) = 3 /\ conv.doc.frames[3].magic = 0
    /\ conv.pc = "exit" /\ conv.exitCode = 1 /\ conv.i = 2
    /\ conv.thrown = "Invalid frame: wrong magic number"

(***************************************************************************)
(* The alpha of the canvas under a sequence of cels.                       *)
(***************************************************************************)
\* the source pixel over canvas pixel (sx, sy) is drawn with effective alpha
\* 0: its alpha byte, the layer's opacity or the cel's opacity is 0
EffectiveAlphaZero(cel, sx, sy) ==
    /\ HasSource(cel, sx, sy)
    /\ OnVisibleLayer(cel)
    /\ CelPixel(cel, sx, sy)[4] * conv.layers[cel.layerIndex + 1].opacity
           * cel.opacity = 0

C29_Draw ==
    \A cel \in {conv.cels[k] : k \in 1..Len(conv.cels)} :
        DrawStep(cel) =>
            /\ Len(conv'.image) = Len(conv.image)
            /\ \A sx \in CanvasXs, sy \in CanvasYs :
                /\ CanvasPixel(conv'.image, sx, sy)[4] >= CanvasPixel(conv.image, sx, sy)[4]
                /\ CanvasPixel(conv'.image, sx, sy)[4] <= 255
                /\ EffectiveAlphaZero(cel, sx, sy) => Kept(sx, sy)

\* C29: compositing never lowers alpha.  Drawing a cel leaves the alpha byte
\* of every canvas pixel at or above what it was, whatever was drawn before,
\* and a source pixel whose effective alpha is 0 (by its own alpha byte, by
\* the layer's opacity or by the cel's) leaves the four bytes of its canvas
\* pixel as they were.
C29_AlphaNeverLowered == [][C29_Draw]_vars

\* an opaque cel, then a cel of alpha 128 drawn with cel opacity 0: the
\* canvas still holds the first cel's pixel
C29_Witness ==
    /\ conv.pc = "drawCels" /\ conv.celNo = 3
    /\ Len(conv.cels) = 3
    /\ conv.cels[1].pixels = <<255, 0, 128, 255>> /\ conv.cels[1].opacity = 255
    /\ conv.cels[2].pixels = <<1, 2, 3, 128>> /\ conv.cels[2].opacity = 0
    /\ OnVisibleLayer(conv.cels[1]) /\ OnVisibleLayer(conv.cels[2])
    /\ conv.image = <<255, 0, 128, 255>>

\* a cel of alpha 128 over a cel of alpha 128: the alpha has risen to 192
C29_WitnessRaised ==
    /\ conv.pc = "drawCels" /\ conv.celNo = 3
    /\ Len(conv.cels) = 3
    /\ conv.cels[1].pixels = <<1, 2, 3, 128>> /\ conv.cels[1].opacity = 255
    /\ conv.cels[2].pixels = <<1, 2, 3, 128>> /\ conv.cels[2].opacity = 255
    /\ conv.cels[1].layerIndex = 0 /\ conv.cels[2].layerIndex = 0
    /\ conv.image = <<1, 2, 3, 192>>

\* a translucent cel over an opaque pixel: the alpha stays 255
C29_WitnessOverOpaque ==
    /\ conv.pc = "drawCels" /\ conv.celNo = 3
    /\ Len(conv.cels) = 3
    /\ conv.cels[1].pixels = <<255, 0, 128, 255>> /\ conv.cels[1].opacity = 255
    /\ conv.cels[2].pixels = <<1, 2, 3, 128>> /\ conv.cels[2].opacity = 255
    /\ conv.cels[1].layerIndex = 0 /\ conv.cels[2].layerIndex = 0
    /\ conv.image[4] = 255 /\ conv.image[1] < 255

(***************************************************************************)
(* The cleanup of useServerSideEvents.                                     *)
(***************************************************************************)
\* C30: after the cleanup of the effect no EventSource is created: once the
\* hook is unmounted its event source is closed and stays closed, a reconnect
\* timer set before the cleanup opens nothing, and at most one EventSource
\* of the hook is not closed at any time.
C30_NoConnectAfterCleanup ==
    /\ sse.sources <= 1
    /\ ~sse.mounted => sse.source = "closed" /\ sse.sources = 0

\* at most one EventSource of the hook is not closed, and it is the current
\* one
AtMostOneEventSource ==
    sse.sources = IF sse.source = "closed" THEN 0 ELSE 1

=============================================================================
